---- MODULE Spec2Model ----
(***************************************************************************)
(* AIDE chat orchestrator (AideService) of vscode-fork, with the three     *)
(* model providers seen through the IAideModelProvider interface.          *)
(*                                                                         *)
(* One sendMessage / sendMessageStream call is in flight at a time (the    *)
(* caller's duty, spec section 5); every await of the code is a step       *)
(* boundary, so configuration changes, agent CRUD, tool registration and   *)
(* cancellation interleave with a turn at its suspension points.           *)
(*                                                                         *)
(* Left out: message ids, timestamps and token usage (no modelled code     *)
(* reads them), display names, image content.                              *)
(***************************************************************************)
EXTENDS Integers, Sequences, FiniteSets, TLC

\* ---------------------------------------------------------------- bounds
MaxAgents == 1      \* agents createAgent makes in one run
MaxTurns == 2       \* sendMessage / sendMessageStream calls in one run
MaxHistory == 1     \* messages an agent holds, at most, when a call is made
MaxEnvOps == 2      \* registration, configuration and agent CRUD operations
MaxEvents == 4      \* lines of one streamed response
MaxLines == 2       \* complete lines one read of the response body brings
MaxIndexOps == 2    \* watcher events and direct indexFile / removeFromIndex calls
MaxCalls == 2       \* indexFile calls in flight at one time
MaxPasses == 2      \* indexWorkspace calls in one run
MaxOllamaOps == 4   \* getAvailableModels calls and Ollama configuration changes
MaxTicks == 2       \* steps of the clock in one run
MaxMessages == 3    \* messages of a request handed to an adapter
MaxDim == 2         \* components of an embedding vector
MaxPieces == 4      \* pieces (a word or a single character) of a text with mentions
MaxEntries == 3     \* entries of the index a search runs over
MaxBytes == 5       \* bytes of a response body

\* ----------------------------------------------------------- vocabulary
None == "none"      \* JavaScript undefined

\* The ids generateUuid hands out, and one more that it never does.
AgentIds == 1..(MaxAgents + 1)

ProviderIds == {"openai", "anthropic", "ollama"}

\* Providers whose chat/chatStream start with the API key check.
KeyedProviders == {"openai", "anthropic"}

\* A model id is "<providerId><separator><modelName>", kept as its three
\* pieces so that String.startsWith can be computed; <<>> is the empty id.
ModelIds ==
    { <<"openai", "/", "gpt-4o">>,
      <<"anthropic", "/", "claude">>,
      <<"ollama", "/", "llama3">>,
      <<>> }

Modes == {"agent", "plan", "debug", "ask"}

\* The tools that get registered; the model may also ask for others.
ToolNames == {"read_file"}

FinishReasons == {"stop", "tool_calls", "length", "error"}

\* ------------------------------------------------------- message content
\* An absent model id, tool result and tool list (the fields hold sequences).
NoModel == <<None>>
NoResult == <<None>>
NoTools == <<None>>

\* IAideMessageContent; absent optional fields are None, an absent or empty
\* text is <<>> (both are falsy in the code's tests).
TextItem(t) ==
    [type |-> "text", text |-> t, toolCallId |-> None, toolName |-> None,
     toolArguments |-> None, toolResult |-> NoResult, isError |-> FALSE]

ToolCallItem(id, name, args) ==
    [type |-> "tool_call", text |-> <<>>, toolCallId |-> id, toolName |-> name,
     toolArguments |-> args, toolResult |-> NoResult, isError |-> FALSE]

ToolResultItem(id, result, err) ==
    [type |-> "tool_result", text |-> <<>>, toolCallId |-> id, toolName |-> None,
     toolArguments |-> None, toolResult |-> result, isError |-> err]

\* The delta {} of a chunk that only carries a finish reason.
EmptyDelta ==
    [type |-> None, text |-> <<>>, toolCallId |-> None, toolName |-> None,
     toolArguments |-> None, toolResult |-> NoResult, isError |-> FALSE]

\* IAideStreamChunk.
Chunk(delta, fr) == [delta |-> delta, finishReason |-> fr]

\* IAideMessage.
Message(role, content, model) == [role |-> role, content |-> content, model |-> model]

\* JavaScript truthiness of an optional string.
Truthy(s) == s # None /\ s # ""

\* Array.prototype.filter.
RECURSIVE SelectItems(_, _)
SelectItems(s, type) ==
    IF s = <<>> THEN <<>>
    ELSE IF Head(s).type = type
         THEN <<Head(s)>> \o SelectItems(Tail(s), type)
         ELSE SelectItems(Tail(s), type)

\* Array.prototype.find on the item type: index of the first match, 0 if none.
FirstIndexOf(s, type) ==
    IF \E i \in 1..Len(s) : s[i].type = type
    THEN CHOOSE i \in 1..Len(s) :
            /\ s[i].type = type
            /\ \A j \in 1..(i - 1) : s[j].type # type
    ELSE 0

\* String.prototype.startsWith(prefix + sep) on a model id.
StartsWith(modelId, prefix, sep) ==
    /\ Len(modelId) >= 2
    /\ modelId[1] = prefix
    /\ modelId[2] = sep

\* ------------------------------------------------------------- providers
\* Text deltas a provider sends; a text is a sequence of characters.
TextDeltas == { <<"h">> }

\* Tool calls a model asks for.  An empty name is what the streaming
\* adapters emit for a call whose fragments never carried a name
\* (toolBuffer.name stays '', content_block.name || '').
NamedToolCalls ==
    { ToolCallItem("call_1", "read_file", "args"),
      ToolCallItem("call_2", "write_file", "args") }

NamelessToolCall == ToolCallItem("call_3", "", "args")

\* OpenAIProvider._mapFinishReason, OllamaProvider._mapDoneReason and
\* AnthropicProvider._mapStopReason: the finish reasons each adapter can
\* report ('error' is in the type, no adapter produces it).
ProviderFinishReasons(p) ==
    IF p = "ollama" THEN {"stop"} ELSE {"stop", "tool_calls"}

\* The chunks one adapter's chatStream can yield.
\*   openai:    text chunks (with the line's finish reason, if any), tool_call
\*              chunks always tagged tool_calls, and a closing empty chunk for
\*              every finish reason but tool_calls;
\*   anthropic: text and tool_call chunks without finish reason, and an empty
\*              chunk carrying the stop reason of message_delta;
\*   ollama:    text chunks, and an empty chunk when done is set.
ProviderChunks(p) ==
    IF p = "openai" THEN
        { Chunk(TextItem(t), None) : t \in TextDeltas }
        \cup { Chunk(tc, "tool_calls") : tc \in NamedToolCalls \cup {NamelessToolCall} }
        \cup { Chunk(EmptyDelta, fr) : fr \in ProviderFinishReasons(p) \ {"tool_calls"} }
    ELSE IF p = "anthropic" THEN
        { Chunk(TextItem(t), None) : t \in TextDeltas }
        \cup { Chunk(tc, None) : tc \in NamedToolCalls \cup {NamelessToolCall} }
        \cup { Chunk(EmptyDelta, fr) : fr \in ProviderFinishReasons(p) }
    ELSE
        { Chunk(TextItem(t), None) : t \in TextDeltas }
        \cup { Chunk(EmptyDelta, fr) : fr \in ProviderFinishReasons(p) }

\* The response bodies a provider streams, as the chunks its adapter yields
\* for them when the body is read to its end.
ProviderStreams(p) ==
    LET T == Chunk(TextItem(<<"h">>), None)
        C1(fr) == Chunk(ToolCallItem("call_1", "read_file", "args"), fr)
        C2(fr) == Chunk(ToolCallItem("call_2", "write_file", "args"), fr)
        C3(fr) == Chunk(NamelessToolCall, fr)
        E(fr) == Chunk(EmptyDelta, fr)
    IN  IF p = "openai" THEN
            { <<T, T, E("stop")>>,
              <<T, C1("tool_calls"), C2("tool_calls")>>,
              <<C1("tool_calls"), C3("tool_calls")>> }
        ELSE IF p = "anthropic" THEN
            { <<T, E("stop")>>,
              <<T, C1(None), T, E("tool_calls")>>,
              <<C1(None), C2(None), E("tool_calls")>>,
              <<C3(None), E("tool_calls")>> }
        ELSE
            { <<T, T, E("stop")>>,
              <<E("stop")>> }

\* The content lists a non-streaming response can carry
\* (_parseResponseContent; Ollama's chat builds text only).
ProviderContents(p) ==
    IF p = "ollama" THEN { <<>>, <<TextItem(<<"h">>)>> }
    ELSE { <<TextItem(<<"h">>)>>,
           <<TextItem(<<"h">>), ToolCallItem("call_1", "read_file", "args")>>,
           <<ToolCallItem("call_1", "read_file", "args"),
             ToolCallItem("call_2", "write_file", "args")>> }

\* IAideCompletionResponse of provider p for a request.
ProviderResponses(p, request) ==
    { [content |-> c, model |-> request.model, finishReason |-> fr] :
        c \in ProviderContents(p), fr \in ProviderFinishReasons(p) }

\* getAvailableModels of one provider: the keyed providers list their
\* models only with an API key; Ollama lists what its server returns.
ProviderModels(p, keys, ollamaUp) ==
    IF p \in KeyedProviders
    THEN IF p \in keys THEN << <<p, "/", IF p = "openai" THEN "gpt-4o" ELSE "claude">> >> ELSE <<>>
    ELSE IF ollamaUp THEN << <<"ollama", "/", "llama3">> >> ELSE <<>>

\* ---------------------------------------------------------- orchestrator
\* AideService.getAvailableModels: the providers' lists in map order.
RECURSIVE AvailableModels(_, _, _)
AvailableModels(providers, keys, ollamaUp) ==
    IF providers = <<>> THEN <<>>
    ELSE ProviderModels(Head(providers), keys, ollamaUp)
            \o AvailableModels(Tail(providers), keys, ollamaUp)

\* AideService.getDefaultModel with no stored default: models[0].
DefaultModel(providers, keys, ollamaUp) ==
    LET models == AvailableModels(providers, keys, ollamaUp)
    IN  IF models = <<>> THEN <<>> ELSE models[1]

\* AideService._findProviderForModel: the first provider whose id followed
\* by '/' or ':' starts the model id; failing that, the first provider of
\* the map; None for an empty map.
FindProviderForModel(providers, modelId) ==
    LET matches == { i \in 1..Len(providers) :
                        \/ StartsWith(modelId, providers[i], "/")
                        \/ StartsWith(modelId, providers[i], ":") }
    IN  IF matches # {}
        THEN providers[CHOOSE i \in matches : \A j \in matches : i <= j]
        ELSE IF Len(providers) > 0 THEN providers[1]
        ELSE None

\* AideService._buildSystemPrompt: one fixed template per mode.
BuildSystemPrompt(mode) == <<"prompt", mode>>

\* A request that carries the tool list in every mode (a variant of
\* BuildCompletionRequest: C14 rests on the mode test).
BuildCompletionRequestWithTools(agent, toolList) ==
    [messages |-> <<Message("system", <<TextItem(BuildSystemPrompt(agent.mode))>>, NoModel)>>
                    \o agent.messages,
     model |-> agent.model,
     tools |-> toolList,
     stream |-> FALSE]

\* AideService._buildCompletionRequest.
BuildCompletionRequest(agent, toolList) ==
    [messages |-> <<Message("system", <<TextItem(BuildSystemPrompt(agent.mode))>>, NoModel)>>
                    \o agent.messages,
     model |-> agent.model,
     tools |-> IF agent.mode = "agent" THEN toolList ELSE NoTools,
     stream |-> FALSE]

\* The supportsTools flag of the catalogues: every entry of OPENAI_MODELS
\* and ANTHROPIC_MODELS has it true, every model the Ollama adapter lists has
\* it false; an id no catalogue lists has no flag.
SupportsTools(modelId) ==
    /\ Len(modelId) = 3
    /\ modelId[1] \in {"openai", "anthropic"}

\* OpenAIProvider._convertTools and AnthropicProvider._convertTools: one
\* schema entry per tool of the request.
ConvertTools(p, toolList) ==
    [k \in 1..Len(toolList) |->
        IF p = "openai"
        THEN [type |-> "function", function |-> [name |-> toolList[k]]]
        ELSE [name |-> toolList[k], input_schema |-> "parameters"]]

\* The body chat and chatStream of adapter p post for a request, as far as
\* its tools field goes: whether it has one, and the list in it.  The Ollama
\* adapter never sets it.
BodyTools(p, request) ==
    IF p = "ollama" \/ request.tools = NoTools
    THEN [present |-> FALSE, tools |-> <<>>]
    ELSE IF Len(ConvertTools(p, request.tools)) > 0
         THEN [present |-> TRUE, tools |-> ConvertTools(p, request.tools)]
         ELSE [present |-> FALSE, tools |-> <<>>]

\* String.prototype.replace('ollama/', '') on a model id.
OllamaModelName(modelId) ==
    IF StartsWith(modelId, "ollama", "/") THEN SubSeq(modelId, 3, Len(modelId))
    ELSE modelId

\* Array.prototype.map(c => c.text || '').join('').
RECURSIVE JoinTexts(_)
JoinTexts(items) ==
    IF items = <<>> THEN <<>>
    ELSE Head(items).text \o JoinTexts(Tail(items))

\* OllamaProvider._mapRole: Ollama has no tool role.
OllamaMapRole(role) ==
    IF role \in {"system", "user", "assistant"} THEN role ELSE "user"

\* OllamaProvider._convertMessages for messages without image items: the
\* role mapped, the content the text items joined.
OllamaConvertMessages(request) ==
    [k \in 1..Len(request.messages) |->
        [role |-> OllamaMapRole(request.messages[k].role),
         content |-> JoinTexts(SelectItems(request.messages[k].content, "text"))]]

\* The body OllamaProvider.chat posts to /api/chat.
OllamaChatBody(request) ==
    [model |-> OllamaModelName(request.model),
     messages |-> OllamaConvertMessages(request),
     stream |-> FALSE]

\* The user message sendMessage and sendMessageStream build.
UserMessage(content) == Message("user", <<TextItem(content)>>, NoModel)

\* The accumulation step of sendMessageStream's loop body: a text delta is
\* appended to the first text item (or starts one), a delta with a tool name
\* adds a tool_call item.
AccumulateContent(acc, chunk) ==
    LET i == FirstIndexOf(acc, "text")
        withText ==
            IF chunk.delta.text # <<>>
            THEN IF i # 0
                 THEN [acc EXCEPT ![i].text = @ \o chunk.delta.text]
                 ELSE Append(acc, TextItem(chunk.delta.text))
            ELSE acc
    IN  IF Truthy(chunk.delta.toolName)
        THEN Append(withText, ToolCallItem(chunk.delta.toolCallId,
                                           chunk.delta.toolName,
                                           chunk.delta.toolArguments))
        ELSE withText

\* A loop body that hands on the delta only (a variant of YieldedChunk: C9
\* rests on the chunk being yielded as it came).
YieldedDeltaOnly(chunk) == [chunk EXCEPT !.finishReason = None]

\* What sendMessageStream hands to its caller for a chunk it pulled.
YieldedChunk(chunk) == chunk

\* The tool calls _handleToolCalls iterates over.
ToolCallsOf(content) == SelectItems(content, "tool_call")

\* An executeToolCall that returns the exception's message as a plain result
\* (a variant of ExecuteToolCall: C13 rests on the error flag of the catch).
ExecuteToolCallUnflagged(toolList, toolName, behaviour) ==
    IF \A i \in 1..Len(toolList) : toolList[i] # toolName
    THEN [result |-> <<"not found", toolName>>, isError |-> TRUE]
    ELSE IF behaviour = "ok"
         THEN [result |-> <<"result", toolName>>, isError |-> FALSE]
         ELSE [result |-> <<"exception", toolName>>, isError |-> FALSE]

\* AideService.executeToolCall: an unknown name gives an error result, a
\* handler that throws gives an error result with the exception's message.
\* behaviour is what the handler does: "ok" (resolves) or "throw".
ExecuteToolCall(toolList, toolName, behaviour) ==
    IF \A i \in 1..Len(toolList) : toolList[i] # toolName
    THEN [result |-> <<"not found", toolName>>, isError |-> TRUE]
    ELSE IF behaviour = "ok"
         THEN [result |-> <<"result", toolName>>, isError |-> FALSE]
         ELSE [result |-> <<"exception", toolName>>, isError |-> TRUE]

\* A tool message that takes its id from the result, where executeToolCall
\* put a fresh uuid (a variant of ToolResultMessage: C3 rests on the id being
\* the tool call's).
ToolResultMessageOwnId(toolCall, result) ==
    Message("tool", <<ToolResultItem("uuid", result.result, result.isError)>>, NoModel)

\* A tool message without the error flag (a variant of ToolResultMessage:
\* C12 rests on the flag being copied from the result).
ToolResultMessageNoFlag(toolCall, result) ==
    Message("tool", <<ToolResultItem(toolCall.toolCallId, result.result, FALSE)>>, NoModel)

\* The tool message _handleToolCalls appends for one call.
ToolResultMessage(toolCall, result) ==
    Message("tool", <<ToolResultItem(toolCall.toolCallId, result.result, result.isError)>>, NoModel)

\* ------------------------------------------------- adapters on the wire
\* JSON.parse on the text of tool arguments, a sequence of characters: a run
\* of 1s is a number, and so is a run of 1s after one minus sign; any other
\* text over these characters, the empty text included, makes JSON.parse
\* throw (ok: FALSE).
JsonChars == {"-", "1"}

Digits(s) == s # <<>> /\ \A i \in 1..Len(s) : s[i] = "1"

JsonParse(s) ==
    IF Digits(s)
    THEN [ok |-> TRUE, negative |-> FALSE, digits |-> Len(s)]
    ELSE IF s # <<>> /\ Head(s) = "-" /\ Digits(Tail(s))
         THEN [ok |-> TRUE, negative |-> TRUE, digits |-> Len(s) - 1]
         ELSE [ok |-> FALSE, negative |-> FALSE, digits |-> 0]

\* The value JSON.parse returns (toolArguments of a tool_call delta).
JsonValue(s) == [negative |-> JsonParse(s).negative, digits |-> JsonParse(s).digits]

\* Call indexes of a streamed response, with the id and name the provider
\* gives the call of each index.
CallIndexes == {0, 1}
WireId(i) == IF i = 0 THEN "call_a" ELSE "call_b"
WireName(i) == IF i = 0 THEN "read_file" ELSE "write_file"

\* One entry of choice.delta.tool_calls (absent id, name, arguments: "", <<>>).
Fragment(i, id, name, arguments) ==
    [index |-> i, id |-> id, name |-> name, arguments |-> arguments]

\* The fragments OpenAI streams: the first of a call carries id and name,
\* the others a piece of the argument text.
OpenAIFragments ==
    { Fragment(i, WireId(i), WireName(i), <<>>) : i \in CallIndexes }
    \cup { Fragment(i, "", "", <<c>>) : i \in CallIndexes, c \in JsonChars }

\* One parsed `data:` line of OpenAI's stream: choices[0].delta.content,
\* choices[0].delta.tool_calls and choices[0].finish_reason.
OpenAIEvent(content, toolCalls, finish) ==
    [type |-> "chunk", content |-> content, toolCalls |-> toolCalls, finish |-> finish]

OpenAIEvents ==
    { OpenAIEvent(<<"h">>, <<>>, fr) : fr \in {None, "stop"} }
    \cup { OpenAIEvent(<<>>, <<f>>, None) : f \in OpenAIFragments }
    \cup { OpenAIEvent(<<>>, <<Fragment(0, "", "", <<"1">>)>>, "tool_calls") }
    \cup { OpenAIEvent(<<>>, <<>>, fr) : fr \in {"stop", "tool_calls"} }

\* OpenAIProvider._mapFinishReason.
MapFinishReason(reason) ==
    IF reason \in {"stop", "tool_calls", "length"} THEN reason ELSE "stop"

\* toolCallBuffers after one fragment, the fragment's arguments put in front
\* of the buffered text (a variant of BufferFragment: C15 rests on the
\* arguments being appended).
BufferFragmentPrepending(buffers, f) ==
    LET known == \E k \in 1..Len(buffers) : buffers[k].index = f.index
        bs == IF known THEN buffers
              ELSE Append(buffers, [index |-> f.index, id |-> f.id, name |-> "",
                                    arguments |-> <<>>])
    IN  [k \in 1..Len(bs) |->
            IF bs[k].index = f.index
            THEN [index |-> f.index,
                  id |-> IF Truthy(f.id) THEN f.id ELSE bs[k].id,
                  name |-> IF Truthy(f.name) THEN f.name ELSE bs[k].name,
                  arguments |-> f.arguments \o bs[k].arguments]
            ELSE bs[k]]

\* toolCallBuffers after one fragment: the buffer of the fragment's index is
\* made if there is none, then takes the id and the name when the fragment
\* has them and appends the fragment's arguments.  The buffers are kept in
\* the order the Map iterates them: the order of first arrival.
BufferFragment(buffers, f) ==
    LET known == \E k \in 1..Len(buffers) : buffers[k].index = f.index
        bs == IF known THEN buffers
              ELSE Append(buffers, [index |-> f.index, id |-> f.id, name |-> "",
                                    arguments |-> <<>>])
    IN  [k \in 1..Len(bs) |->
            IF bs[k].index = f.index
            THEN [index |-> f.index,
                  id |-> IF Truthy(f.id) THEN f.id ELSE bs[k].id,
                  name |-> IF Truthy(f.name) THEN f.name ELSE bs[k].name,
                  arguments |-> bs[k].arguments \o f.arguments]
            ELSE bs[k]]

RECURSIVE BufferFragments(_, _)
BufferFragments(buffers, fs) ==
    IF fs = <<>> THEN buffers
    ELSE BufferFragments(BufferFragment(buffers, Head(fs)), Tail(fs))

\* The chunks the emission loop yields for the buffers: one tool_call chunk
\* for every buffer whose arguments parse, in the Map's order, stopping at the
\* first failure (a variant of EmitToolCalls: C17 rests on the try around
\* each single tool call).
RECURSIVE EmitToolCallsUntilFailure(_, _)
EmitToolCallsUntilFailure(buffers, fr) ==
    IF buffers = <<>> THEN <<>>
    ELSE IF JsonParse(Head(buffers).arguments).ok
         THEN <<Chunk(ToolCallItem(Head(buffers).id, Head(buffers).name,
                                   JsonValue(Head(buffers).arguments)), fr)>>
                 \o EmitToolCallsUntilFailure(Tail(buffers), fr)
         ELSE <<>>

\* The chunks the emission loop yields for the buffers: one tool_call chunk
\* for every buffer whose arguments parse, in the Map's order.
RECURSIVE EmitToolCalls(_, _)
EmitToolCalls(buffers, fr) ==
    IF buffers = <<>> THEN <<>>
    ELSE (IF JsonParse(Head(buffers).arguments).ok
          THEN <<Chunk(ToolCallItem(Head(buffers).id, Head(buffers).name,
                                    JsonValue(Head(buffers).arguments)), fr)>>
          ELSE <<>>)
            \o EmitToolCalls(Tail(buffers), fr)

\* The failures the emission loop logs: the buffers that do not parse.
RECURSIVE EmitFailures(_)
EmitFailures(buffers) ==
    IF buffers = <<>> THEN 0
    ELSE (IF JsonParse(Head(buffers).arguments).ok THEN 0 ELSE 1)
            + EmitFailures(Tail(buffers))

\* An OpenAI line handler that emits a call as soon as its arguments parse
\* (a variant of OpenAILine: C16 rests on emission waiting for the finish
\* reason).
OpenAILineEager(buffers, e) ==
    LET bs == BufferFragments(buffers, e.toolCalls)
    IN  [buffers |-> bs,
         chunks |-> (IF e.content # <<>>
                     THEN <<Chunk(TextItem(e.content),
                                  IF e.finish # None THEN MapFinishReason(e.finish)
                                  ELSE None)>>
                     ELSE <<>>)
                    \o EmitToolCalls(bs, "tool_calls")
                    \o (IF e.finish # None /\ e.finish # "tool_calls"
                        THEN <<Chunk(EmptyDelta, MapFinishReason(e.finish))>>
                        ELSE <<>>),
         errors |-> 0]

\* OpenAIProvider.chatStream on one parsed line: what becomes of the
\* buffers, the chunks yielded, and how many failures are logged.
OpenAILine(buffers, e) ==
    LET bs == BufferFragments(buffers, e.toolCalls)
    IN  [buffers |-> bs,
         chunks |-> (IF e.content # <<>>
                     THEN <<Chunk(TextItem(e.content),
                                  IF e.finish # None THEN MapFinishReason(e.finish)
                                  ELSE None)>>
                     ELSE <<>>)
                    \o (IF e.finish = "tool_calls"
                        THEN EmitToolCalls(bs, "tool_calls")
                        ELSE <<>>)
                    \o (IF e.finish # None /\ e.finish # "tool_calls"
                        THEN <<Chunk(EmptyDelta, MapFinishReason(e.finish))>>
                        ELSE <<>>),
         errors |-> IF e.finish = "tool_calls" THEN EmitFailures(bs) ELSE 0]

\* One parsed `data:` line of Anthropic's stream.  The fields an event type
\* does not have are None, NoIndex, "" or <<>>.
NoIndex == -1

AnthropicEvent(type, blockIndex, kind, id, name, text, stopReason) ==
    [type |-> type, index |-> blockIndex, kind |-> kind, id |-> id, name |-> name,
     text |-> text, stopReason |-> stopReason]

AnthropicEvents ==
    { AnthropicEvent("content_block_start", i, "tool_use", WireId(i), WireName(i),
                     <<>>, None) : i \in CallIndexes }
    \cup { AnthropicEvent("content_block_delta", 0, "text_delta", "", "", <<"h">>, None) }
    \cup { AnthropicEvent("content_block_delta", i, "input_json_delta", "", "", <<c>>,
                          None) : i \in CallIndexes, c \in JsonChars }
    \cup { AnthropicEvent("content_block_stop", i, None, "", "", <<>>, None) :
             i \in CallIndexes }
    \cup { AnthropicEvent("message_delta", NoIndex, None, "", "", <<>>, r) :
             r \in {"end_turn", "tool_use"} }

\* AnthropicProvider._mapStopReason.
MapStopReason(reason) ==
    CASE reason \in {"end_turn", "stop_sequence"} -> "stop"
      [] reason = "tool_use" -> "tool_calls"
      [] reason = "max_tokens" -> "length"
      [] OTHER -> "stop"

\* toolUseBlocks.set(index, block): a new key goes last, a known key keeps
\* its place and takes the new block.
SetBlock(buffers, b) ==
    IF \E k \in 1..Len(buffers) : buffers[k].index = b.index
    THEN [k \in 1..Len(buffers) |-> IF buffers[k].index = b.index THEN b ELSE buffers[k]]
    ELSE Append(buffers, b)

\* toolUseBlocks.get(index), as the sequence of the blocks found (one or none).
GetBlock(buffers, i) == SelectSeq(buffers, LAMBDA b : b.index = i)

\* AnthropicProvider.chatStream on one parsed event.
AnthropicLine(buffers, e) ==
    CASE e.type = "content_block_start" /\ e.kind = "tool_use" /\ e.index # NoIndex ->
            [buffers |-> SetBlock(buffers,
                                  [index |-> e.index,
                                   id |-> IF Truthy(e.id) THEN e.id ELSE "generated",
                                   name |-> e.name, arguments |-> <<>>]),
             chunks |-> <<>>, errors |-> 0]
      [] e.type = "content_block_delta" /\ e.kind = "text_delta" /\ e.text # <<>> ->
            [buffers |-> buffers, chunks |-> <<Chunk(TextItem(e.text), None)>>,
             errors |-> 0]
      [] e.type = "content_block_delta" /\ e.kind = "input_json_delta"
            /\ e.text # <<>> /\ e.index # NoIndex ->
            [buffers |-> [k \in 1..Len(buffers) |->
                            IF buffers[k].index = e.index
                            THEN [buffers[k] EXCEPT !.arguments = @ \o e.text]
                            ELSE buffers[k]],
             chunks |-> <<>>, errors |-> 0]
      [] e.type = "content_block_stop" /\ e.index # NoIndex ->
            [buffers |-> buffers,
             chunks |-> EmitToolCalls(GetBlock(buffers, e.index), None),
             errors |-> EmitFailures(GetBlock(buffers, e.index))]
      [] e.type = "message_delta" /\ Truthy(e.stopReason) ->
            [buffers |-> buffers,
             chunks |-> <<Chunk(EmptyDelta, MapStopReason(e.stopReason))>>,
             errors |-> 0]
      [] OTHER -> [buffers |-> buffers, chunks |-> <<>>, errors |-> 0]

\* One parsed line of Ollama's stream: message.content, done, done_reason.
OllamaEvent(content, done, doneReason) ==
    [type |-> "chunk", content |-> content, done |-> done, doneReason |-> doneReason]

OllamaEvents ==
    { OllamaEvent(<<"h">>, FALSE, None), OllamaEvent(<<"h">>, TRUE, "stop"),
      OllamaEvent(<<>>, TRUE, "length"), OllamaEvent(<<>>, TRUE, None) }

\* OllamaProvider._mapDoneReason.
MapDoneReason(reason) ==
    IF reason \in {"stop", "length"} THEN reason ELSE "stop"

\* OllamaProvider.chatStream on one parsed line.
OllamaLine(buffers, e) ==
    [buffers |-> buffers,
     chunks |-> (IF e.content # <<>> THEN <<Chunk(TextItem(e.content), None)>> ELSE <<>>)
                \o (IF e.done THEN <<Chunk(EmptyDelta, MapDoneReason(e.doneReason))>>
                    ELSE <<>>),
     errors |-> 0]

\* A line that is not JSON: JSON.parse throws, the catch around the line
\* logs it and the loop goes on to the next line.
Malformed == [type |-> "malformed"]

WireEvents(p) ==
    {Malformed} \cup (CASE p = "openai" -> OpenAIEvents
                        [] p = "anthropic" -> AnthropicEvents
                        [] OTHER -> OllamaEvents)

\* What an adapter does with one line of its response.
HandleLine(p, buffers, e) ==
    CASE e.type = "malformed" -> [buffers |-> buffers, chunks |-> <<>>, errors |-> 1]
      [] e.type # "malformed" /\ p = "openai" -> OpenAILine(buffers, e)
      [] e.type # "malformed" /\ p = "anthropic" -> AnthropicLine(buffers, e)
      [] OTHER -> OllamaLine(buffers, e)

\* ------------------------------------------------------ codebase index
\* File locators (uri.toString() is the index key), what a file's text and
\* modification time can be (one number stands for both: a change of the
\* text is a change of mtime), and the sizes on both sides of the ceiling.
Uris == {"a.ts", "b.ts"}
Versions == {1, 2}
SizeCeiling == 1024 * 1024
Sizes == {SizeCeiling, SizeCeiling + 1}

NoFile == [exists |-> FALSE, size |-> 0, version |-> 0]

\* An embedding, or undefined.
Embedding(vec) == [has |-> TRUE, vec |-> vec]
NoEmbedding == [has |-> FALSE, vec |-> <<>>]

\* What the embedding provider returns for a file's text.
Embed(text) == Embedding(<<text, 1>>)

\* IAideIndexedFile.
IndexedFile(uri, content, embedding, lastModified) ==
    [uri |-> uri, content |-> content, embedding |-> embedding,
     lastModified |-> lastModified]

NoEntry == IndexedFile(None, 0, NoEmbedding, 0)

\* Map.set that keeps what the old entry has and the new one lacks (a
\* variant of IndexSet: C23 rests on the entry being replaced as a whole).
IndexSetMerging(idx, entry) ==
    IF \E k \in 1..Len(idx) : idx[k].uri = entry.uri
    THEN [k \in 1..Len(idx) |->
            IF idx[k].uri = entry.uri
            THEN [entry EXCEPT !.embedding = IF entry.embedding.has THEN @
                                             ELSE idx[k].embedding]
            ELSE idx[k]]
    ELSE Append(idx, entry)

\* this._index.set(uri.toString(), entry): the entry of a known key is
\* replaced where it stands, a new key goes last.
IndexSet(idx, entry) ==
    IF \E k \in 1..Len(idx) : idx[k].uri = entry.uri
    THEN [k \in 1..Len(idx) |-> IF idx[k].uri = entry.uri THEN entry ELSE idx[k]]
    ELSE Append(idx, entry)

\* this._index.delete(uri.toString()).
IndexDelete(idx, uri) == SelectSeq(idx, LAMBDA e : e.uri # uri)

\* The entries the index holds for a locator.
EntriesOf(idx, uri) == SelectSeq(idx, LAMBDA e : e.uri = uri)

\* ------------------------------------------------- Ollama's model list
ModelCacheTtl == 30000     \* MODEL_CACHE_TTL, in milliseconds
ClockStep == 15000         \* how far the clock moves between two events

\* The base URLs the configuration can hold, and the models the server at
\* each URL has installed (data.models of GET /api/tags).
BaseUrls == {"local", "remote"}
InstalledModels(url) == IF url = "local" THEN <<"llama3">> ELSE <<"mistral">>

\* data.models.map(...): the ids of IAideModelInfo, `ollama/${model.name}`.
ModelInfos(names) == [k \in 1..Len(names) |-> <<"ollama", "/", names[k]>>]

\* ------------------------------------------------------------- numbers
\* IEEE double values, as far as the vectors below need them.  A finite
\* value is m * Big^e with m a small integer, Big = 2^400 and e between
\* -MaxExponent and MaxExponent: products, sums and differences of such
\* values are exact in double arithmetic, except that Big^3 = 2^1200 lies
\* above the largest double (overflow to Infinity) and that the smaller of
\* two values of different exponents is absorbed by the larger in a sum.  A
\* square root or quotient that is not such a value is kept as the
\* expression it is the rounding of; it is finite and not 0.
MaxExponent == 2

Finite(m, e) == [kind |-> "finite", m |-> m, e |-> IF m = 0 THEN 0 ELSE e, of |-> <<>>]
Zero == Finite(0, 0)
Big == Finite(1, 1)
Huge == Finite(1, 2)
Infinity(sign) == [kind |-> "infinity", m |-> sign, e |-> 0, of |-> <<>>]
NaN == [kind |-> "nan", m |-> 0, e |-> 0, of |-> <<>>]
Rounded(op, x, y) == [kind |-> "finite", m |-> 1, e |-> 0, of |-> <<op, x, y>>]

Sign(m) == IF m > 0 THEN 1 ELSE IF m < 0 THEN -1 ELSE 0
Abs(m) == IF m < 0 THEN -m ELSE m

\* -x.
FNeg(x) ==
    IF x.kind = "nan" THEN NaN
    ELSE IF x.kind = "infinity" THEN Infinity(-x.m)
    ELSE Finite(-x.m, x.e)

\* x * y.
FMul(x, y) ==
    IF x.kind = "nan" \/ y.kind = "nan" THEN NaN
    ELSE IF x.kind = "infinity" \/ y.kind = "infinity"
         THEN IF x = Zero \/ y = Zero THEN NaN
              ELSE Infinity(Sign(x.m) * Sign(y.m))
    ELSE IF x = Zero \/ y = Zero THEN Zero
    ELSE IF x.of # <<>> \/ y.of # <<>> THEN Rounded("*", x, y)
    ELSE IF x.e + y.e > MaxExponent THEN Infinity(Sign(x.m) * Sign(y.m))
    ELSE Finite(x.m * y.m, x.e + y.e)

\* x + y, for values that are not kept as expressions.
FAdd(x, y) ==
    IF x.kind = "nan" \/ y.kind = "nan" THEN NaN
    ELSE IF x.kind = "infinity" /\ y.kind = "infinity"
         THEN IF x.m = y.m THEN x ELSE NaN
    ELSE IF x.kind = "infinity" THEN x
    ELSE IF y.kind = "infinity" THEN y
    ELSE IF x = Zero THEN y
    ELSE IF y = Zero THEN x
    ELSE IF x.e = y.e THEN Finite(x.m + y.m, x.e)
    ELSE IF x.e > y.e THEN x ELSE y

\* Math.sqrt(x): exact for the squares.
FSqrt(x) ==
    IF x.kind = "nan" THEN NaN
    ELSE IF x.kind = "infinity" THEN x
    ELSE IF x.m < 0 THEN NaN
    ELSE IF x = Zero THEN Zero
    ELSE IF x.e % 2 = 0 /\ \E r \in 1..x.m : r * r = x.m
         THEN Finite(CHOOSE r \in 1..x.m : r * r = x.m, x.e \div 2)
    ELSE Rounded("sqrt", x, x)

\* x / y, for y that is not zero: a finite value over Infinity is 0, a
\* non-zero finite value over a finite one is not 0, and exact when the
\* integers divide.
FDiv(x, y) ==
    IF x.kind = "nan" \/ y.kind = "nan" THEN NaN
    ELSE IF x.kind = "infinity"
         THEN IF y.kind = "infinity" THEN NaN ELSE Infinity(x.m * Sign(y.m))
    ELSE IF y.kind = "infinity" \/ x = Zero THEN Zero
    ELSE IF x.of = <<>> /\ y.of = <<>> /\ Abs(x.m) % Abs(y.m) = 0
         THEN Finite(Sign(x.m) * Sign(y.m) * (Abs(x.m) \div Abs(y.m)), x.e - y.e)
    ELSE Rounded("/", x, y)

\* The loop of _cosineSimilarity over the first n components:
\* <<dotProduct, normA, normB>>.
RECURSIVE Accumulate(_, _, _)
Accumulate(a, b, n) ==
    IF n = 0 THEN <<Zero, Zero, Zero>>
    ELSE LET acc == Accumulate(a, b, n - 1)
         IN  << FAdd(acc[1], FMul(a[n], b[n])),
                FAdd(acc[2], FMul(a[n], a[n])),
                FAdd(acc[3], FMul(b[n], b[n])) >>

\* AideContextService._cosineSimilarity.
CosineSimilarity(a, b) ==
    IF Len(a) # Len(b) THEN Zero
    ELSE LET acc == Accumulate(a, b, Len(a))
             magnitude == FMul(FSqrt(acc[2]), FSqrt(acc[3]))
         IN  IF magnitude = Zero THEN Zero ELSE FDiv(acc[1], magnitude)

\* The components embedding vectors are drawn from.
Components == { Zero, Finite(1, 0), Finite(-1, 0), Finite(2, 0), Big, Huge }

\* ------------------------------------------------------------ mentions
\* A text is a sequence of characters.  The keys of typeMap, which are also
\* the values of AideContextType.
ContextTypes ==
    { <<"f", "i", "l", "e">>,
      <<"f", "o", "l", "d", "e", "r">>,
      <<"s", "e", "l", "e", "c", "t", "i", "o", "n">>,
      <<"s", "y", "m", "b", "o", "l">>,
      <<"c", "o", "d", "e", "b", "a", "s", "e">>,
      <<"w", "e", "b">>,
      <<"t", "e", "r", "m", "i", "n", "a", "l">>,
      <<"g", "i", "t">>,
      <<"p", "r", "o", "b", "l", "e", "m", "s">>,
      <<"d", "o", "c", "s">> }

\* The properties typeMap inherits from Object.prototype whose names are
\* lower-case words: typeMap[name] is the inherited value, not undefined.
InheritedKeys ==
    { <<"c", "o", "n", "s", "t", "r", "u", "c", "t", "o", "r">>,
      <<"_", "_", "p", "r", "o", "t", "o", "_", "_">> }

UpperCase == {"F", "W"}
LowerOf(c) == IF c = "F" THEN "f" ELSE IF c = "W" THEN "w" ELSE c

\* String.prototype.toLowerCase.
ToLowerCase(s) == [k \in 1..Len(s) |-> LowerOf(s[k])]

\* The character classes of MENTION_REGEX: \w and \s.
IsWordChar(c) ==
    c \in {"a", "b", "c", "d", "e", "f", "g", "i", "l", "m", "n", "o", "p", "r",
           "s", "t", "u", "w", "x", "y", "_"} \cup UpperCase
IsSpace(c) == c = " "

\* The length of \w+ and of [^\s]+ matched greedily from position i
\* (1-based); 0 when there is no such character at i.
RECURSIVE WordRun(_, _)
WordRun(text, i) ==
    IF i > Len(text) \/ ~IsWordChar(text[i]) THEN 0
    ELSE 1 + WordRun(text, i + 1)

RECURSIVE NonSpaceRun(_, _)
NonSpaceRun(text, i) ==
    IF i > Len(text) \/ IsSpace(text[i]) THEN 0
    ELSE 1 + NonSpaceRun(text, i + 1)

\* MENTION_REGEX = /@(\w+)(?::([^\s]+))?/g matches at position i.
MatchesAt(text, i) ==
    /\ i <= Len(text)
    /\ text[i] = "@"
    /\ WordRun(text, i + 1) > 0

\* The match at position i: match.index, match[0].length, match[1] and
\* match[2] (<<>> when the group did not take part).
MatchAt(text, i) ==
    LET w == WordRun(text, i + 1)
        q == IF i + 1 + w <= Len(text) /\ text[i + 1 + w] = ":"
             THEN NonSpaceRun(text, i + 2 + w)
             ELSE 0
    IN  [index |-> i - 1,
         length |-> IF q > 0 THEN 1 + w + 1 + q ELSE 1 + w,
         word |-> SubSeq(text, i + 1, i + w),
         query |-> IF q > 0 THEN SubSeq(text, i + 2 + w, i + 1 + w + q) ELSE <<>>]

\* AideContextService._parseContextType: typeMap[typeStr.toLowerCase()];
\* <<>> is undefined, <<"inherited", name>> the value of an inherited
\* property.
ParseContextType(typeStr) ==
    IF ToLowerCase(typeStr) \in ContextTypes THEN ToLowerCase(typeStr)
    ELSE IF ToLowerCase(typeStr) \in InheritedKeys
         THEN <<"inherited">> \o ToLowerCase(typeStr)
    ELSE <<>>

\* The loop of parseMentions from MENTION_REGEX.lastIndex = from (0-based):
\* exec finds the leftmost match at or after it and moves lastIndex to the
\* match's end.
RECURSIVE MentionsFrom(_, _)
MentionsFrom(text, from) ==
    LET starts == { i \in (from + 1)..Len(text) : MatchesAt(text, i) }
    IN  IF starts = {} THEN <<>>
        ELSE LET i == CHOOSE j \in starts : \A k \in starts : j <= k
                 match == MatchAt(text, i)
                 type == ParseContextType(match.word)
                 rest == MentionsFrom(text, match.index + match.length)
             IN  IF type # <<>>
                 THEN << [type |-> type, query |-> match.query,
                          startOffset |-> match.index,
                          endOffset |-> match.index + match.length] >> \o rest
                 ELSE rest

\* AideContextService.parseMentions.
ParseMentions(text) == MentionsFrom(text, 0)

\* The pieces the texts below are made of.
TextPieces ==
    { <<"@">>, <<":">>, <<" ">>, <<".">>, <<"x">>,
      <<"f", "i", "l", "e">>, <<"W", "e", "b">>,
      <<"c", "o", "n", "s", "t", "r", "u", "c", "t", "o", "r">> }

RECURSIVE Flatten(_)
Flatten(pieces) ==
    IF pieces = <<>> THEN <<>> ELSE Head(pieces) \o Flatten(Tail(pieces))

\* ------------------------------------------------------- semantic search
\* x < y, x > y and x >= y on doubles; every comparison with NaN is false.
FLess(x, y) ==
    /\ x.kind # "nan" /\ y.kind # "nan"
    /\ x # y
    /\ LET d == FAdd(y, FNeg(x)) IN d.kind # "nan" /\ d.m > 0

FGeq(x, y) == x.kind # "nan" /\ y.kind # "nan" /\ ~FLess(x, y)

\* The files of the index in the order of the Map, and the embeddings
\* their entries can hold; a vector of another length than the query's
\* scores 0.
IndexOrder == <<"a.ts", "b.ts", "c.ts", "d.ts">>

EntryEmbeddings ==
    { Embedding(<<Finite(1, 0)>>), Embedding(<<Finite(-1, 0)>>),
      Embedding(<<Huge>>), Embedding(<<Finite(1, 0), Zero>>), NoEmbedding }

\* What embeddingProviders[0].embed([query]) resolves to.
QueryEmbeddings == { <<Finite(1, 0)>>, <<Big>> }

\* IAideSearchResult of the semantic search.
SemanticResult(file, score) ==
    [uri |-> file.uri, content |-> file.content, score |-> score,
     matchType |-> "semantic"]

\* The loop over this._index: nothing once the token is cancelled, else one
\* result per entry that has an embedding, in the order of the Map.
RECURSIVE ScoreEntries(_, _, _)
ScoreEntries(idx, queryEmbedding, tokenCancelled) ==
    IF idx = <<>> \/ tokenCancelled THEN <<>>
    ELSE IF Head(idx).embedding.has
         THEN <<SemanticResult(Head(idx),
                               CosineSimilarity(queryEmbedding, Head(idx).embedding.vec))>>
                 \o ScoreEntries(Tail(idx), queryEmbedding, tokenCancelled)
         ELSE ScoreEntries(Tail(idx), queryEmbedding, tokenCancelled)

\* The comparator (a, b) => b.score - a.score.
CompareScores(a, b) == FAdd(b.score, FNeg(a.score))

\* The orders of 1..n.
Orders(n) ==
    { p \in [1..n -> 1..n] : \A i, j \in 1..n : i # j => p[i] # p[j] }

\* Array.prototype.sort with CompareScores: the stable descending order; a
\* comparator that answers NaN for some pair is not a consistent one, and
\* the order is then whatever the engine's algorithm leaves.
SortOutcomes(results) ==
    LET n == Len(results)
        consistent == \A i, j \in 1..n : CompareScores(results[i], results[j]).kind # "nan"
        before(i, j) ==
            LET c == CompareScores(results[i], results[j])
            IN  c.m < 0 \/ (c.m = 0 /\ i < j)
    IN  { [k \in 1..n |-> results[p[k]]] :
            p \in { q \in Orders(n) :
                       consistent => \A k, l \in 1..n : k < l => before(q[k], q[l]) } }

\* Array.prototype.slice(0, limit) for a limit that is a natural number.
Slice(s, limit) == SubSeq(s, 1, IF limit < Len(s) THEN limit ELSE Len(s))

\* What lexicalSearch maps the text matches of the search service to.
LexicalResults ==
    { <<>>, <<[uri |-> "a.ts", content |-> "preview", score |-> Finite(1, 0),
               matchType |-> "lexical"]>> }

\* ---------------------------------------------------------------- state
VARIABLES
    modelProviders,   \* _modelProviders: provider ids in registration order
    apiKeys,          \* the keyed providers whose _apiKey is set
    tools,            \* _tools: tool names in registration order
    agentKeys,        \* keys of _agents
    agents,           \* the agent objects, by id (an object outlives its map entry)
    activeAgentId,    \* _activeAgentId (0: undefined)
    store,            \* what the storage service holds under 'aide.agents'
    fired,            \* what the latest operation on the agents has fired and stamped
    nextId,           \* the next id generateUuid hands to createAgent
    pc,               \* where the call in flight is suspended
    cur,              \* locals of the call in flight
    cancelled,        \* token.isCancellationRequested of the call in flight
    hist,             \* history of the call in flight (observation only)
    turns,            \* calls made so far
    envOps,           \* registration, configuration and CRUD operations so far
    builtInTimer,     \* the constructor's 100 ms timer: "armed", then "done"
    adapter,          \* a provider adapter's chatStream, followed line by line
    index,            \* AideContextService._index, in the Map's insertion order
    isIndexing,       \* _isIndexing
    indexedCount,     \* _indexedCount
    totalFiles,       \* _totalFiles
    files,            \* the workspace's files, as the file service sees them
    embedders,        \* whether an embedding provider is registered
    inFlight,         \* the indexFile calls in flight
    passes,           \* the indexWorkspace calls, by the order they were made
    seen,             \* what the indexer was asked so far (observation only)
    ollama,           \* OllamaProvider's model cache, its clock and its fetches
    calc              \* a synchronous function being applied: its input and its result

cfgVars == <<modelProviders, apiKeys, tools>>
agentVars == <<agentKeys, agents, activeAgentId, store, fired, nextId>>
callVars == <<pc, cur, cancelled, hist, turns>>
indexerVars == <<index, isIndexing, indexedCount, totalFiles, files, embedders, inFlight,
                 passes, seen>>
outsideService == <<builtInTimer, adapter, indexerVars, ollama, calc>>
vars == <<modelProviders, apiKeys, tools, agentKeys, agents, activeAgentId, store,
          fired, nextId, pc, cur, cancelled, hist, turns, envOps, builtInTimer, adapter,
          index, isIndexing, indexedCount, totalFiles, files, embedders, inFlight,
          passes, seen, ollama, calc>>

\* The adapter's generator: the provider, where its loop stands, the token,
\* whether the reader's lock is held, the reads issued, the lines of the
\* read in hand still to handle, toolCallBuffers / toolUseBlocks, the chunks yielded and the
\* failures logged; fed, at and failed record the lines handled so far, the
\* line each chunk was yielded on, and whether a read rejected (observation
\* only).
NoAdapter ==
    [provider |-> None, pc |-> "off", cancelled |-> FALSE, locked |-> FALSE,
     reads |-> 0, pending |-> 0, buffers |-> <<>>, emitted |-> <<>>,
     errors |-> 0, fed |-> <<>>, at |-> <<>>, failed |-> FALSE,
     cancelledAt |-> None]

\* OllamaProvider after construction: the configured base URL, an empty
\* cache fetched "at time 0", the clock (Date.now(), far from 0), no
\* getAvailableModels call in flight.  epoch counts the configuration
\* changes, cachedEpoch is the epoch in which the fetch that filled the cache
\* was issued, returned lists what the calls returned (observation only).
NoOllama ==
    [baseUrl |-> "local", cachedModels |-> <<>>, lastModelFetch |-> 0,
     now |-> ModelCacheTtl, fetches |-> <<>>, epoch |-> 0, cachedEpoch |-> 0,
     returned |-> <<>>, ops |-> 0, ticks |-> 0]

\* No function is being applied.
NoCalc == [fn |-> None, input |-> <<>>, output |-> <<>>, done |-> FALSE]

\* An indexWorkspace call that is not running (not made yet, or returned).
NoPass == [pc |-> "off", cancelled |-> FALSE, queue |-> <<>>]

NoSeen ==
    [ops |-> 0, passesMade |-> 0, refused |-> 0, enumerated |-> 0,
     lastEvent |-> [u \in Uris |-> None], lastSize |-> [u \in Uris |-> 0],
     built |-> [u \in Uris |-> <<>>]]

\* The context service right after construction, with no file in the
\* workspace: the state of the indexer while something else is followed.
IndexerOff ==
    /\ index = <<>>
    /\ isIndexing = FALSE
    /\ indexedCount = 0
    /\ totalFiles = 0
    /\ files = [u \in Uris |-> NoFile]
    /\ embedders = FALSE
    /\ inFlight = <<>>
    /\ passes = [i \in 1..MaxPasses |-> NoPass]
    /\ seen = NoSeen

NoAgent == [mode |-> None, model |-> NoModel, messages |-> <<>>, attachments |-> <<>>]

NoChunk == Chunk(EmptyDelta, "nochunk")

NoRequest == [messages |-> <<>>, model |-> NoModel, tools |-> NoTools, stream |-> FALSE]

\* No IAideToolResult.
NoToolResult == [result |-> NoResult, isError |-> FALSE]

NoCall ==
    [kind |-> None, agent |-> 0, provider |-> None, request |-> NoRequest,
     acc |-> <<>>, lastChunk |-> NoChunk, inflight |-> NoChunk,
     wire |-> <<>>, queue |-> <<>>, result |-> NoToolResult]

\* The blob _saveAgents writes: the agents of the map and the active id.
SavedAgents(keys, objs, active) ==
    [keys |-> keys,
     agents |-> [i \in AgentIds |-> IF i \in keys THEN objs[i] ELSE NoAgent],
     activeId |-> active]

NoStore == SavedAgents({}, [i \in AgentIds |-> NoAgent], 0)

\* What an operation on the agents lets the service's listeners and the
\* agents' clocks see: whether it fired _onDidChangeAgents and
\* _onDidChangeActiveAgent, and the agent whose lastActiveAt it set to
\* Date.now() (0: none).  A turn counts from its call: nothing is fired
\* before its end.
Fired(changeAgents, changeActive, stamped) ==
    [agents |-> changeAgents, active |-> changeActive, stamped |-> stamped]

NoFired == Fired(FALSE, FALSE, 0)

\* What is remembered of the call before the one in flight.
NoPrev == [agent |-> 0, outcome |-> None, content |-> <<>>, base |-> <<>>]

\* The history of a call: the state it started from (pre...), the text it
\* was given, how it ended (outcome: None while it runs), the provider calls
\* and tool dispatch rounds it made, the chunks the provider's stream
\* produced (opened: its response body was opened) and those handed to the
\* caller, the tool_call items the provider delivered, the tool calls
\* executeToolCall was called for with what their handlers did and what
\* executeToolCall returned, the finish reason of the turn, and the tool
\* registry and the token's state when the call was made, and where the call
\* was suspended when its token was cancelled (None: not cancelled in flight).
NoHist ==
    [preKeys |-> {}, preAgents |-> [i \in AgentIds |-> NoAgent], preActive |-> 0,
     preStore |-> NoStore, preProviders |-> <<>>, preTools |-> <<>>,
     preCancelled |-> FALSE, content |-> <<>>, outcome |-> None,
     providerCalls |-> 0, toolRounds |-> 0, opened |-> FALSE,
     produced |-> <<>>, yielded |-> <<>>,
     toolCalls |-> <<>>, dispatched |-> <<>>, behaviours |-> <<>>, results |-> <<>>,
     finish |-> None, cancelledAt |-> None, prev |-> NoPrev]

\* The providers AideContribution registers at startup, in its order.
StartupProviders == <<"openai", "anthropic", "ollama">>

\* The service after construction on an empty profile (_loadAgents finds
\* nothing), either on its own or with the contribution's providers
\* registered; the providers read their API keys from the configuration.
ServiceInit ==
    /\ modelProviders \in {<<>>, StartupProviders}
    /\ apiKeys \in SUBSET KeyedProviders
    /\ tools = <<>>
    /\ agentKeys = {}
    /\ agents = [i \in AgentIds |-> NoAgent]
    /\ activeAgentId = 0
    /\ store = NoStore
    /\ fired = NoFired
    /\ nextId = 1
    /\ pc = "idle"
    /\ cur = NoCall
    /\ cancelled = FALSE
    /\ hist = NoHist
    /\ turns = 0
    /\ envOps = 0
    /\ builtInTimer = "armed"

\* No adapter's stream is followed while the service is.
Init ==
    /\ ServiceInit
    /\ adapter = NoAdapter
    /\ IndexerOff
    /\ ollama = NoOllama
    /\ calc = NoCalc

\* Where the call in flight awaits something outside the service: its
\* provider's fetch, a read of the response body, a tool handler.  Only
\* there (and between calls) can another event handler run; the steps in
\* between are one synchronous run of the code and its micro-tasks.
Suspended == pc \in {"fetch", "sfetch", "read", "handler"}

EnvStep ==
    /\ pc = "idle" \/ Suspended
    /\ envOps < MaxEnvOps
    /\ envOps' = envOps + 1
    /\ UNCHANGED outsideService

InSeq(x, s) == \E i \in 1..Len(s) : s[i] = x

Without(s, x) == SelectSeq(s, LAMBDA y : y # x)

\* ------------------------------------------- registration, configuration
RegisterModelProvider(p) ==
    /\ EnvStep
    /\ ~InSeq(p, modelProviders)
    /\ modelProviders' = Append(modelProviders, p)
    /\ UNCHANGED <<apiKeys, tools, agentVars, callVars>>

\* The disposable registerModelProvider returns.
UnregisterModelProvider(p) ==
    /\ EnvStep
    /\ InSeq(p, modelProviders)
    /\ modelProviders' = Without(modelProviders, p)
    /\ UNCHANGED <<apiKeys, tools, agentVars, callVars>>

\* onDidChangeConfiguration of a keyed provider: the key is set or cleared.
ConfigureApiKey(p) ==
    /\ EnvStep
    /\ p \in KeyedProviders
    /\ apiKeys' = IF p \in apiKeys THEN apiKeys \ {p} ELSE apiKeys \cup {p}
    /\ UNCHANGED <<modelProviders, tools, agentVars, callVars>>

RegisterTool(n) ==
    /\ EnvStep
    /\ ~InSeq(n, tools)
    /\ tools' = Append(tools, n)
    /\ UNCHANGED <<modelProviders, apiKeys, agentVars, callVars>>

\* The disposable registerTool returns.
UnregisterTool(n) ==
    /\ EnvStep
    /\ InSeq(n, tools)
    /\ tools' = Without(tools, n)
    /\ UNCHANGED <<modelProviders, apiKeys, agentVars, callVars>>

\* ------------------------------------------------------------ agent CRUD
\* createAgent as its callers use it, with the default mode.  ollamaUp: the
\* Ollama server answers getAvailableModels.  The await of getDefaultModel
\* is taken together with the rest of createAgent: nothing else runs in it.
CreateAgent(ollamaUp) ==
    /\ EnvStep
    /\ nextId <= MaxAgents
    /\ agents' = [agents EXCEPT ![nextId] =
                    [mode |-> "agent",
                     model |-> DefaultModel(modelProviders, apiKeys, ollamaUp),
                     messages |-> <<>>, attachments |-> <<>>]]
    /\ agentKeys' = agentKeys \cup {nextId}
    /\ activeAgentId' = nextId
    /\ nextId' = nextId + 1
    /\ store' = SavedAgents(agentKeys', agents', activeAgentId')
    /\ fired' = Fired(TRUE, TRUE, activeAgentId')
    /\ UNCHANGED <<cfgVars, callVars>>

SetActiveAgent(id) ==
    /\ EnvStep
    /\ id \in agentKeys
    /\ activeAgentId' = id
    /\ store' = SavedAgents(agentKeys, agents, id)
    /\ fired' = Fired(FALSE, TRUE, id)
    /\ UNCHANGED <<cfgVars, agentKeys, agents, nextId, callVars>>

\* getAgents()[0] after the delete; with lastActiveAt left out, any
\* remaining agent can be the most recently active one.
DeleteAgent(id) ==
    /\ EnvStep
    /\ id \in agentKeys
    /\ agentKeys' = agentKeys \ {id}
    /\ \E next \in (IF agentKeys' = {} THEN {0} ELSE agentKeys') :
          activeAgentId' = IF activeAgentId = id THEN next ELSE activeAgentId
    /\ store' = SavedAgents(agentKeys', agents, activeAgentId')
    /\ fired' = Fired(TRUE, TRUE, 0)
    /\ UNCHANGED <<cfgVars, agents, nextId, callVars>>

\* The updates callers pass to updateAgent: a mode or a model.
AgentUpdates ==
    { [mode |-> m] : m \in Modes } \cup { [model |-> x] : x \in ModelIds }

\* Object.assign(agent, updates).
AssignUpdates(agent, updates) ==
    [agent EXCEPT !.mode = IF "mode" \in DOMAIN updates THEN updates.mode ELSE @,
                  !.model = IF "model" \in DOMAIN updates THEN updates.model ELSE @]

UpdateAgent(id, updates) ==
    /\ EnvStep
    /\ id \in agentKeys
    /\ agents' = [agents EXCEPT ![id] = AssignUpdates(@, updates)]
    /\ store' = SavedAgents(agentKeys, agents', activeAgentId)
    /\ fired' = Fired(TRUE, activeAgentId = id, id)
    /\ UNCHANGED <<cfgVars, agentKeys, activeAgentId, nextId, callVars>>

\* ------------------------------------------------------------------ chat
\* What a caller passes: the message text, and attachments (<<>>: none).
UserTexts == { <<"q">> }
AttachmentInputs == { <<>>, <<"a.ts">> }

\* agent.messages.push(message).
PushMessage(objs, id, message) ==
    [objs EXCEPT ![id].messages = Append(@, message)]

\* The assistant message sendMessage builds from the response.
AssistantOfResponse(response) == Message("assistant", response.content, response.model)

\* The assistant message sendMessageStream builds when its loop has ended.
AssistantOfStream(acc, agent) == Message("assistant", acc, agent.model)

\* An end of turn that asks the model again once tool results are there (a
\* variant of FinishTurn: C10 rests on the turn ending after the dispatch).
FinishTurnReinvoking(objs, h) ==
    IF h.toolRounds > 0 /\ h.providerCalls < 2
    THEN /\ agents' = objs
         /\ UNCHANGED <<store, fired>>
         /\ pc' = IF cur.kind = "stream" THEN "sfetch" ELSE "fetch"
         /\ cur' = cur
         /\ hist' = [h EXCEPT !.providerCalls = @ + 1]
    ELSE /\ agents' = objs
         /\ store' = SavedAgents(agentKeys, objs, activeAgentId)
         /\ fired' = Fired(TRUE, FALSE, cur.agent)
         /\ pc' = "ended"
         /\ cur' = cur
         /\ hist' = [h EXCEPT !.outcome = "ok"]

\* The end of sendMessage and sendMessageStream: lastActiveAt, _saveAgents,
\* the change event, and the promise resolves.
FinishTurn(objs, h) ==
    /\ agents' = objs
    /\ store' = SavedAgents(agentKeys, objs, activeAgentId)
    /\ fired' = Fired(TRUE, FALSE, cur.agent)
    /\ pc' = "ended"
    /\ cur' = cur
    /\ hist' = [h EXCEPT !.outcome = "ok"]

\* The call throws: nothing after the throw runs.
ThrowFrom(objs, h, error) ==
    /\ agents' = objs
    /\ store' = store
    /\ pc' = "ended"
    /\ hist' = [h EXCEPT !.outcome = error]

\* A lookup that never misses (a variant of AgentExists: C1 rests on the
\* lookup).
AgentAssumed(keys, id) == TRUE

\* this._agents.get(agentId) finds an agent.
AgentExists(keys, id) == id \in keys

\* The common head of sendMessage and sendMessageStream, up to the await of
\* the provider's fetch: agent lookup, user message, attachments, provider
\* lookup, request, and the provider's own checks before its fetch (the API
\* key; a fetch given an already aborted signal rejects).
BeginTurn(kind, id, content, atts, tokenCancelled) ==
    LET h0 == [hist EXCEPT !.preKeys = agentKeys, !.preAgents = agents,
                           !.preActive = activeAgentId, !.preStore = store,
                           !.preProviders = modelProviders, !.preTools = tools,
                           !.preCancelled = tokenCancelled, !.content = content]
        withUser == [agents EXCEPT ![id].messages = Append(@, UserMessage(content)),
                                   ![id].attachments = @ \o atts]
        provider == FindProviderForModel(modelProviders, agents[id].model)
        request == [BuildCompletionRequest(withUser[id], tools)
                        EXCEPT !.stream = (kind = "stream")]
        h1 == [h0 EXCEPT !.providerCalls = @ + 1]
    IN  /\ pc = "idle"
        /\ turns < MaxTurns
        /\ Len(agents[id].messages) <= MaxHistory
        /\ turns' = turns + 1
        /\ cancelled' = tokenCancelled
        /\ fired' = NoFired
        /\ IF ~AgentExists(agentKeys, id)
           THEN /\ ThrowFrom(agents, h0, "not_found")
                /\ cur' = [NoCall EXCEPT !.kind = kind, !.agent = id]
           ELSE IF provider = None
           THEN /\ ThrowFrom(withUser, h0, "no_provider")
                /\ cur' = [NoCall EXCEPT !.kind = kind, !.agent = id]
           ELSE /\ cur' = [NoCall EXCEPT !.kind = kind, !.agent = id,
                                         !.provider = provider, !.request = request]
                /\ IF provider \in KeyedProviders /\ provider \notin apiKeys
                   THEN ThrowFrom(withUser, h1, "config_error")
                   ELSE IF tokenCancelled
                   THEN ThrowFrom(withUser, h1, "aborted")
                   ELSE /\ agents' = withUser
                        /\ store' = store
                        /\ pc' = IF kind = "stream" THEN "sfetch" ELSE "fetch"
                        /\ hist' = h1
        /\ UNCHANGED <<cfgVars, agentKeys, activeAgentId, nextId, envOps, outsideService>>

SendMessage(id, content, atts, tokenCancelled) ==
    BeginTurn("chat", id, content, atts, tokenCancelled)

SendMessageStream(id, content, atts, tokenCancelled) ==
    BeginTurn("stream", id, content, atts, tokenCancelled)

\* The token source of the call in flight is cancelled.
Cancel ==
    /\ Suspended
    /\ ~cancelled
    /\ cancelled' = TRUE
    /\ hist' = [hist EXCEPT !.cancelledAt = pc]
    /\ UNCHANGED <<cfgVars, agentVars, pc, cur, turns, envOps, outsideService>>

\* The caller has seen the call's result.
Return ==
    /\ pc = "ended"
    /\ pc' = "idle"
    /\ cur' = NoCall
    /\ hist' = [NoHist EXCEPT !.prev = [agent |-> cur.agent, outcome |-> hist.outcome,
                                        content |-> hist.content,
                                        base |-> hist.preAgents[cur.agent].messages]]
    /\ cancelled' = FALSE
    /\ UNCHANGED <<cfgVars, agentVars, turns, envOps, outsideService>>

\* A dispatch decided by the content instead of the finish reason (a variant
\* of AfterAssistant: C2 rests on the finish reason test).
AfterAssistantByContent(objs, h, content, finishReason) ==
    IF ToolCallsOf(content) # <<>>
    THEN /\ agents' = objs
         /\ UNCHANGED <<store, fired>>
         /\ pc' = "dispatch"
         /\ cur' = [cur EXCEPT !.queue = ToolCallsOf(content)]
         /\ hist' = [h EXCEPT !.finish = finishReason, !.toolRounds = @ + 1]
    ELSE FinishTurn(objs, [h EXCEPT !.finish = finishReason])

\* After the assistant message: _handleToolCalls when the finish reason is
\* tool_calls, else the end of the turn.
AfterAssistant(objs, h, content, finishReason) ==
    IF finishReason = "tool_calls"
    THEN /\ agents' = objs
         /\ UNCHANGED <<store, fired>>
         /\ pc' = "dispatch"
         /\ cur' = [cur EXCEPT !.queue = ToolCallsOf(content)]
         /\ hist' = [h EXCEPT !.finish = finishReason, !.toolRounds = @ + 1]
    ELSE FinishTurn(objs, [h EXCEPT !.finish = finishReason])

\* provider.chat rejects: the fetch fails, the status is not 2xx, or the
\* body does not parse.
ChatRejects ==
    /\ pc = "fetch"
    /\ ThrowFrom(agents, hist, "transport_error")
    /\ UNCHANGED <<cfgVars, agentKeys, activeAgentId, nextId, fired, cur, cancelled, turns, envOps, outsideService>>

\* provider.chat resolves; sendMessage appends the assistant message.
ChatResolves(response) ==
    /\ pc = "fetch"
    /\ AfterAssistant(PushMessage(agents, cur.agent, AssistantOfResponse(response)),
                      [hist EXCEPT !.toolCalls = SelectItems(response.content, "tool_call")],
                      response.content, response.finishReason)
    /\ UNCHANGED <<cfgVars, agentKeys, activeAgentId, nextId, cancelled, turns, envOps, outsideService>>

\* ------------------------------------------------------------- streaming
\* An end of stream that drops what was accumulated when the token is
\* cancelled (a variant of EndOfStream: C20 rests on the accumulator being
\* used as it is).
EndOfStreamRollback(h) ==
    LET kept == IF cancelled THEN <<>> ELSE cur.acc
        final == AssistantOfStream(kept, agents[cur.agent])
        fr == IF cur.lastChunk = NoChunk THEN None ELSE cur.lastChunk.finishReason
    IN  AfterAssistant(PushMessage(agents, cur.agent, final), h, kept, fr)

\* The top of the adapter's read loop: a cancelled token ends the stream
\* without an error; otherwise reader.read() is awaited.  c and h are the
\* locals and the history as they are when the loop top is reached.
EndOfStream(h) ==
    LET final == AssistantOfStream(cur.acc, agents[cur.agent])
        fr == IF cur.lastChunk = NoChunk THEN None ELSE cur.lastChunk.finishReason
    IN  AfterAssistant(PushMessage(agents, cur.agent, final), h, cur.acc, fr)

LoopTop(c, h) ==
    IF cancelled
    THEN EndOfStream(h)
    ELSE /\ pc' = "read"
         /\ cur' = c
         /\ hist' = h
         /\ UNCHANGED <<agents, store, fired>>

\* chatStream's fetch fails, answers with a non-2xx status, or has no body:
\* the generator throws at the first pull.
StreamRejects ==
    /\ pc = "sfetch"
    /\ ThrowFrom(agents, hist, "transport_error")
    /\ UNCHANGED <<cfgVars, agentKeys, activeAgentId, nextId, fired, cur, cancelled, turns, envOps, outsideService>>

\* chatStream's fetch answers 2xx with a body (which will carry `wire`):
\* the read loop starts.
StreamOpens(wire) ==
    /\ pc = "sfetch"
    /\ LoopTop([cur EXCEPT !.wire = wire], [hist EXCEPT !.opened = TRUE])
    /\ UNCHANGED <<cfgVars, agentKeys, activeAgentId, nextId, cancelled, turns, envOps, outsideService>>

\* reader.read() resolves with bytes: their lines are processed.
ReadValue ==
    /\ pc = "read"
    /\ pc' = "lines"
    /\ UNCHANGED <<cfgVars, agentVars, cur, cancelled, hist, turns, envOps, outsideService>>

\* reader.read() resolves with done: the adapter's generator returns.
ReadDone ==
    /\ pc = "read"
    /\ EndOfStream(hist)
    /\ UNCHANGED <<cfgVars, agentKeys, activeAgentId, nextId, cancelled, turns, envOps, outsideService>>

\* reader.read() rejects: the adapter's finally releases the reader and the
\* error leaves chatStream, then sendMessageStream's for-await loop.
ReadFails ==
    /\ pc = "read"
    /\ ThrowFrom(agents, hist, "stream_error")
    /\ UNCHANGED <<cfgVars, agentKeys, activeAgentId, nextId, fired, cur, cancelled, turns, envOps, outsideService>>

\* A line of the current read makes the adapter yield a chunk.
ProviderYields(chunk) ==
    /\ pc = "lines"
    /\ cur.wire # <<>>
    /\ chunk = Head(cur.wire)
    /\ pc' = "chunk"
    /\ cur' = [cur EXCEPT !.inflight = chunk, !.wire = Tail(@)]
    /\ hist' = [hist EXCEPT !.produced = Append(@, chunk),
                            !.toolCalls = IF chunk.delta.type = "tool_call"
                                          THEN Append(@, chunk.delta) ELSE @]
    /\ UNCHANGED <<cfgVars, agentVars, cancelled, turns, envOps, outsideService>>

\* The lines of the current read are used up: back to the loop top.
LinesDone ==
    /\ pc = "lines"
    /\ LoopTop(cur, hist)
    /\ UNCHANGED <<cfgVars, agentKeys, activeAgentId, nextId, cancelled, turns, envOps, outsideService>>

\* The body of sendMessageStream's for-await loop: accumulate, remember the
\* chunk, yield it; the caller then asks for the next chunk.
OrchestratorYields ==
    /\ pc = "chunk"
    /\ pc' = "lines"
    /\ cur' = [cur EXCEPT !.acc = AccumulateContent(@, cur.inflight),
                          !.lastChunk = cur.inflight,
                          !.inflight = NoChunk]
    /\ hist' = [hist EXCEPT !.yielded = Append(@, YieldedChunk(cur.inflight))]
    /\ UNCHANGED <<cfgVars, agentVars, cancelled, turns, envOps, outsideService>>

\* --------------------------------------------------------- tool dispatch
\* Handler behaviours: the handler's promise resolves or rejects.
HandlerBehaviours == {"ok", "throw"}

\* A loop head that does not look at the token (a variant of DispatchNext:
\* C11 rests on the check before each call).
DispatchNextUnchecked(behaviour) ==
    /\ pc = "dispatch"
    /\ IF cur.queue = <<>>
       THEN FinishTurn(agents, hist)
       ELSE /\ pc' = "handler"
            /\ cur' = [cur EXCEPT !.result =
                          ExecuteToolCall(tools, Head(cur.queue).toolName, behaviour)]
            /\ hist' = [hist EXCEPT
                          !.dispatched = Append(@, Head(cur.queue)),
                          !.behaviours = Append(@, [handler |-> behaviour,
                                                    registered |-> InSeq(Head(cur.queue).toolName, tools)]),
                          !.results = Append(@, ExecuteToolCall(tools, Head(cur.queue).toolName,
                                                                behaviour))]
            /\ UNCHANGED <<agents, store, fired>>
    /\ UNCHANGED <<cfgVars, agentKeys, activeAgentId, nextId, cancelled, turns, envOps, outsideService>>

\* One pass through the head of _handleToolCalls' loop: it ends when the
\* calls are used up or the token is cancelled; otherwise executeToolCall is
\* called for the next tool call (its handler will behave as `behaviour`).
DispatchNext(behaviour) ==
    /\ pc = "dispatch"
    /\ IF cur.queue = <<>> \/ cancelled
       THEN FinishTurn(agents, hist)
       ELSE /\ pc' = "handler"
            /\ cur' = [cur EXCEPT !.result =
                          ExecuteToolCall(tools, Head(cur.queue).toolName, behaviour)]
            /\ hist' = [hist EXCEPT
                          !.dispatched = Append(@, Head(cur.queue)),
                          !.behaviours = Append(@, [handler |-> behaviour,
                                                    registered |-> InSeq(Head(cur.queue).toolName, tools)]),
                          !.results = Append(@, ExecuteToolCall(tools, Head(cur.queue).toolName,
                                                                behaviour))]
            /\ UNCHANGED <<agents, store, fired>>
    /\ UNCHANGED <<cfgVars, agentKeys, activeAgentId, nextId, cancelled, turns, envOps, outsideService>>

\* executeToolCall resolves: the tool message is appended.
ToolReturns ==
    /\ pc = "handler"
    /\ pc' = "dispatch"
    /\ agents' = PushMessage(agents, cur.agent,
                             ToolResultMessage(Head(cur.queue), cur.result))
    /\ cur' = [cur EXCEPT !.queue = Tail(@), !.result = NoToolResult]
    /\ UNCHANGED <<cfgVars, agentKeys, activeAgentId, nextId, store, fired, cancelled,
                   hist, turns, envOps, outsideService>>

\* ------------------------------------------------------------------ next
Next ==
    \/ \E p \in ProviderIds : RegisterModelProvider(p)
    \/ \E p \in ProviderIds : UnregisterModelProvider(p)
    \/ \E p \in KeyedProviders : ConfigureApiKey(p)
    \/ \E n \in ToolNames : RegisterTool(n)
    \/ \E n \in ToolNames : UnregisterTool(n)
    \/ \E up \in BOOLEAN : CreateAgent(up)
    \/ \E id \in AgentIds : SetActiveAgent(id)
    \/ \E id \in AgentIds : DeleteAgent(id)
    \/ \E id \in AgentIds, u \in AgentUpdates : UpdateAgent(id, u)
    \/ \E id \in AgentIds, t \in UserTexts, a \in AttachmentInputs, c \in BOOLEAN :
          SendMessage(id, t, a, c)
    \/ \E id \in AgentIds, t \in UserTexts, a \in AttachmentInputs, c \in BOOLEAN :
          SendMessageStream(id, t, a, c)
    \/ Cancel
    \/ Return
    \/ ChatRejects
    \/ \E r \in ProviderResponses(cur.provider, cur.request) : ChatResolves(r)
    \/ StreamRejects
    \/ \E w \in ProviderStreams(cur.provider) : StreamOpens(w)
    \/ ReadValue
    \/ ReadDone
    \/ ReadFails
    \/ \E c \in ProviderChunks(cur.provider) : ProviderYields(c)
    \/ LinesDone
    \/ OrchestratorYields
    \/ \E b \in HandlerBehaviours : DispatchNext(b)
    \/ ToolReturns

Spec == Init /\ [][Next]_vars

\* ----------------------------------------------- the adapters' chatStream
\* The service's variables play no part in an adapter's generator.
serviceVars == <<modelProviders, apiKeys, tools, agentKeys, agents, activeAgentId,
                 store, fired, nextId, pc, cur, cancelled, hist, turns, envOps,
                 builtInTimer>>

outsideStream == <<serviceVars, indexerVars, ollama, calc>>

\* chatStream after its fetch resolved with a body: the reader is taken (the
\* lock held), nothing is read yet.  The token may have been cancelled while
\* the fetch was awaited: the signal handed to fetch is fixed when fetch is
\* called and does not follow the token.
StreamInit ==
    /\ ServiceInit
    /\ modelProviders = StartupProviders
    /\ apiKeys = KeyedProviders
    /\ \E p \in ProviderIds, c \in BOOLEAN :
          adapter = [NoAdapter EXCEPT !.provider = p, !.pc = "top", !.locked = TRUE,
                                      !.cancelled = c,
                                      !.cancelledAt = IF c THEN "fetch" ELSE None]
    /\ IndexerOff
    /\ ollama = NoOllama
    /\ calc = NoCalc

\* The token is cancelled while the generator is suspended: in a read, or in
\* a yield while the consumer has the chunk.
AdapterCancel ==
    /\ adapter.pc \in {"read", "lines"}
    /\ ~adapter.cancelled
    /\ adapter' = [adapter EXCEPT !.cancelled = TRUE, !.cancelledAt = adapter.pc]
    /\ UNCHANGED outsideStream

\* A loop top that does not look at the token (a variant of AdapterLoopTop:
\* C18 rests on the check before every read).
AdapterLoopTopUnchecked ==
    /\ adapter.pc = "top"
    /\ adapter' = [adapter EXCEPT !.pc = "read", !.reads = @ + 1]
    /\ UNCHANGED outsideStream

\* The top of `while (true)`: break when the token is cancelled, through the
\* finally that releases the reader, and return; otherwise call reader.read().
AdapterLoopTop ==
    /\ adapter.pc = "top"
    /\ adapter' = IF adapter.cancelled
                  THEN [adapter EXCEPT !.pc = "done", !.locked = FALSE]
                  ELSE [adapter EXCEPT !.pc = "read", !.reads = @ + 1]
    /\ UNCHANGED outsideStream

\* The read resolves with data that completes n lines.
AdapterReadValue(n) ==
    /\ adapter.pc = "read"
    /\ Len(adapter.fed) + n <= MaxEvents
    /\ adapter' = [adapter EXCEPT !.pc = "lines", !.pending = n]
    /\ UNCHANGED outsideStream

\* The read resolves with done: break, release the reader, return.
AdapterReadDone ==
    /\ adapter.pc = "read"
    /\ adapter' = [adapter EXCEPT !.pc = "done", !.locked = FALSE]
    /\ UNCHANGED outsideStream

\* The read rejects: the finally releases the reader and the generator throws.
AdapterReadFails ==
    /\ adapter.pc = "read"
    /\ adapter' = [adapter EXCEPT !.pc = "failed", !.locked = FALSE, !.failed = TRUE]
    /\ UNCHANGED outsideStream

\* The body of `for (const line of lines)` on the next line, e; after the
\* last line the loop is back at its top.
AdapterLine(e) ==
    /\ adapter.pc = "lines"
    /\ LET r == HandleLine(adapter.provider, adapter.buffers, e)
       IN  adapter' = [adapter EXCEPT
                          !.buffers = r.buffers,
                          !.emitted = @ \o r.chunks,
                          !.at = @ \o [k \in 1..Len(r.chunks) |-> Len(adapter.fed) + 1],
                          !.errors = @ + r.errors,
                          !.fed = Append(@, e),
                          !.pending = @ - 1,
                          !.pc = IF adapter.pending = 1 THEN "top" ELSE "lines"]
    /\ UNCHANGED outsideStream

StreamNext ==
    \/ AdapterCancel
    \/ AdapterLoopTop
    \/ \E n \in 1..MaxLines : AdapterReadValue(n)
    \/ AdapterReadDone
    \/ AdapterReadFails
    \/ \E e \in WireEvents(adapter.provider) : AdapterLine(e)

StreamSpec == StreamInit /\ [][StreamNext]_vars

\* ---------------------------------------------------- the context indexer
outsideIndexer == <<serviceVars, adapter, ollama, calc>>

File(size, version) == [exists |-> TRUE, size |-> size, version |-> version]

\* The order in which the search service lists the workspace's files.
UriOrder == <<"a.ts", "b.ts">>

\* The context service after construction, in a workspace of one folder:
\* nothing is indexed, whatever files the folder holds.
IndexInit ==
    /\ ServiceInit
    /\ modelProviders = <<>>
    /\ apiKeys = {}
    /\ adapter = NoAdapter
    /\ index = <<>>
    /\ isIndexing = FALSE
    /\ indexedCount = 0
    /\ totalFiles = 0
    /\ files \in [Uris -> {NoFile, File(SizeCeiling, 1)}]
    /\ embedders \in BOOLEAN
    /\ inFlight = <<>>
    /\ passes = [i \in 1..MaxPasses |-> NoPass]
    /\ seen = NoSeen
    /\ ollama = NoOllama
    /\ calc = NoCalc

\* indexFile(uri, token) is called: it runs up to its first await, the stat.
\* owner is the indexWorkspace call that awaits it, 0 when nobody does.
StartCall(cs, u, owner) ==
    Append(cs, [uri |-> u, pc |-> "stat", owner |-> owner, mtime |-> 0, text |-> 0,
                overtaken |-> 0])

RemoveAt(q, k) == SubSeq(q, 1, k - 1) \o SubSeq(q, k + 1, Len(q))

\* indexWorkspace whose finally leaves _isIndexing as it is (a variant of
\* PassLoop: C40 rests on the finally).
PassLoopKeepsFlag(p, cs, queue) ==
    IF passes[p].cancelled \/ queue = <<>>
    THEN [inFlight |-> cs, passes |-> [passes EXCEPT ![p] = NoPass],
          isIndexing |-> isIndexing]
    ELSE [inFlight |-> StartCall(cs, Head(queue), p),
          passes |-> [passes EXCEPT ![p] = [pc |-> "file", cancelled |-> FALSE,
                                            queue |-> Tail(queue)]],
          isIndexing |-> isIndexing]

\* indexWorkspace call p at the head of `for (const file of results.results)`
\* with queue still to go: it leaves the loops when the token is cancelled or
\* no file is left (then the finally clears _isIndexing), otherwise it calls
\* indexFile on the next file and awaits it.
PassLoop(p, cs, queue) ==
    IF passes[p].cancelled \/ queue = <<>>
    THEN [inFlight |-> cs, passes |-> [passes EXCEPT ![p] = NoPass],
          isIndexing |-> FALSE]
    ELSE [inFlight |-> StartCall(cs, Head(queue), p),
          passes |-> [passes EXCEPT ![p] = [pc |-> "file", cancelled |-> FALSE,
                                            queue |-> Tail(queue)]],
          isIndexing |-> isIndexing]

\* indexFile call k, one of the calls cs, returns: whoever awaits it goes on.
AfterCallIn(cs, k) ==
    IF cs[k].owner = 0
    THEN [inFlight |-> RemoveAt(cs, k), passes |-> passes,
          isIndexing |-> isIndexing]
    ELSE PassLoop(cs[k].owner, RemoveAt(cs, k), passes[cs[k].owner].queue)

AfterCall(k) == AfterCallIn(inFlight, k)

\* Call k stores an entry with this text while calls for the same locator
\* that started before it (they stand before it in inFlight) are still
\* suspended: they remember the text read by the latest started call that
\* has stored (observation only).
Overtake(cs, k, text) ==
    [i \in 1..Len(cs) |->
        IF i < k /\ cs[i].uri = cs[k].uri
        THEN [cs[i] EXCEPT !.overtaken = IF cs[k].overtaken # 0 THEN cs[k].overtaken
                                         ELSE text]
        ELSE cs[i]]

\* A watcher event or a direct call of the indexer's API.
IndexOp ==
    /\ seen.ops < MaxIndexOps

\* onDidFilesChange with an ADDED change: the file is there, indexFile is
\* called and not awaited.
FileAdded(u, size, v) ==
    /\ IndexOp
    /\ ~files[u].exists
    /\ Len(inFlight) < MaxCalls
    /\ files' = [files EXCEPT ![u] = File(size, v)]
    /\ inFlight' = StartCall(inFlight, u, 0)
    /\ seen' = [seen EXCEPT !.ops = @ + 1, !.lastEvent[u] = "add"]
    /\ UNCHANGED <<index, isIndexing, indexedCount, totalFiles, embedders, passes,
                   outsideIndexer>>

\* onDidFilesChange with an UPDATED change.
FileUpdated(u, size, v) ==
    /\ IndexOp
    /\ files[u].exists
    /\ File(size, v) # files[u]
    /\ Len(inFlight) < MaxCalls
    /\ files' = [files EXCEPT ![u] = File(size, v)]
    /\ inFlight' = StartCall(inFlight, u, 0)
    /\ seen' = [seen EXCEPT !.ops = @ + 1, !.lastEvent[u] = "update"]
    /\ UNCHANGED <<index, isIndexing, indexedCount, totalFiles, embedders, passes,
                   outsideIndexer>>

\* onDidFilesChange with a DELETED change: removeFromIndex.
FileDeleted(u) ==
    /\ IndexOp
    /\ files[u].exists
    /\ files' = [files EXCEPT ![u] = NoFile]
    /\ index' = IndexDelete(index, u)
    /\ seen' = [seen EXCEPT !.ops = @ + 1, !.lastEvent[u] = "delete"]
    /\ UNCHANGED <<isIndexing, indexedCount, totalFiles, embedders, inFlight, passes,
                   outsideIndexer>>

\* indexFile called by some other client of the service.
IndexFile(u) ==
    /\ IndexOp
    /\ Len(inFlight) < MaxCalls
    /\ inFlight' = StartCall(inFlight, u, 0)
    /\ seen' = [seen EXCEPT !.ops = @ + 1]
    /\ UNCHANGED <<index, isIndexing, indexedCount, totalFiles, files, embedders,
                   passes, outsideIndexer>>

\* removeFromIndex called by some other client of the service.
RemoveFromIndex(u) ==
    /\ IndexOp
    /\ index' = IndexDelete(index, u)
    /\ seen' = [seen EXCEPT !.ops = @ + 1]
    /\ UNCHANGED <<isIndexing, indexedCount, totalFiles, files, embedders, inFlight,
                   passes, outsideIndexer>>

\* Call k leaves indexFile without storing (the early return, or the catch).
Leave(k) ==
    /\ inFlight' = AfterCall(k).inFlight
    /\ passes' = AfterCall(k).passes
    /\ isIndexing' = AfterCall(k).isIndexing
    /\ UNCHANGED <<index, indexedCount>>

\* Call k stores its entry, counts it and returns.
Store(k, embedding) ==
    LET c == inFlight[k]
        entry == IndexedFile(c.uri, c.text, embedding, c.mtime)
    IN  /\ index' = IndexSet(index, entry)
        /\ indexedCount' = indexedCount + 1
        /\ inFlight' = AfterCallIn(Overtake(inFlight, k, c.text), k).inFlight
        /\ passes' = AfterCall(k).passes
        /\ isIndexing' = AfterCall(k).isIndexing
        /\ seen' = [seen EXCEPT !.built[c.uri] = Append(@, entry)]

\* The stat of call k settles: it rejects when the file is not there; a
\* file over the ceiling ends the call; otherwise readFile is called.
StatSettles(k) ==
    /\ k \in 1..Len(inFlight)
    /\ inFlight[k].pc = "stat"
    /\ LET u == inFlight[k].uri
       IN  IF ~files[u].exists
           THEN Leave(k) /\ UNCHANGED seen
           ELSE IF files[u].size > SizeCeiling
           THEN Leave(k) /\ seen' = [seen EXCEPT !.lastSize[u] = files[u].size]
           ELSE /\ inFlight' = [inFlight EXCEPT ![k].pc = "read",
                                                ![k].mtime = files[u].version]
                /\ seen' = [seen EXCEPT !.lastSize[u] = files[u].size]
                /\ UNCHANGED <<index, indexedCount, isIndexing, passes>>
    /\ UNCHANGED <<totalFiles, files, embedders, outsideIndexer>>

\* The readFile of call k settles: it rejects when the file is not there;
\* with an embedding provider registered embed is called, otherwise the
\* entry is stored without embedding.
ReadSettles(k) ==
    /\ k \in 1..Len(inFlight)
    /\ inFlight[k].pc = "read"
    /\ LET u == inFlight[k].uri
       IN  IF ~files[u].exists
           THEN Leave(k) /\ UNCHANGED seen
           ELSE IF embedders
           THEN /\ inFlight' = [inFlight EXCEPT ![k].pc = "embed",
                                                ![k].text = files[u].version]
                /\ UNCHANGED <<index, indexedCount, isIndexing, passes, seen>>
           ELSE LET c == [inFlight[k] EXCEPT !.text = files[u].version]
                    entry == IndexedFile(c.uri, c.text, NoEmbedding, c.mtime)
                IN  /\ index' = IndexSet(index, entry)
                    /\ indexedCount' = indexedCount + 1
                    /\ inFlight' = AfterCallIn(Overtake(inFlight, k, c.text), k).inFlight
                    /\ passes' = AfterCall(k).passes
                    /\ isIndexing' = AfterCall(k).isIndexing
                    /\ seen' = [seen EXCEPT !.built[u] = Append(@, entry)]
    /\ UNCHANGED <<totalFiles, files, embedders, outsideIndexer>>

\* The embed of call k settles: with the embedding, or rejected (the entry
\* is then stored without embedding).
EmbedSettles(k, ok) ==
    /\ k \in 1..Len(inFlight)
    /\ inFlight[k].pc = "embed"
    /\ Store(k, IF ok THEN Embed(inFlight[k].text) ELSE NoEmbedding)
    /\ UNCHANGED <<totalFiles, files, embedders, outsideIndexer>>

\* indexWorkspace that starts a pass whether or not one is running (a
\* variant of IndexWorkspace: C22 rests on the _isIndexing test).
IndexWorkspaceUnguarded(c) ==
    /\ seen.passesMade < MaxPasses
    /\ LET p == seen.passesMade + 1
       IN  /\ indexedCount' = 0
           /\ isIndexing' = ~c
           /\ passes' = IF c THEN passes
                        ELSE [passes EXCEPT ![p] = [pc |-> "search", cancelled |-> FALSE,
                                                    queue |-> <<>>]]
           /\ seen' = [seen EXCEPT !.passesMade = p,
                                   !.enumerated = IF c THEN @ ELSE @ + 1]
    /\ UNCHANGED <<index, totalFiles, files, embedders, inFlight, outsideIndexer>>

\* indexWorkspace(token), c telling whether the token is cancelled already:
\* it warns and returns while a pass is running; otherwise it sets
\* _isIndexing, clears the count and, unless the token is cancelled (then the
\* loop is left at once and the finally clears _isIndexing), calls
\* fileSearch on the folder.
IndexWorkspace(c) ==
    /\ seen.passesMade < MaxPasses
    /\ LET p == seen.passesMade + 1
       IN  IF isIndexing
           THEN /\ seen' = [seen EXCEPT !.passesMade = p, !.refused = @ + 1]
                /\ UNCHANGED <<isIndexing, indexedCount, passes>>
           ELSE /\ indexedCount' = 0
                /\ isIndexing' = ~c
                /\ passes' = IF c THEN passes
                             ELSE [passes EXCEPT ![p] = [pc |-> "search",
                                                         cancelled |-> FALSE,
                                                         queue |-> <<>>]]
                /\ seen' = [seen EXCEPT !.passesMade = p,
                                        !.enumerated = IF c THEN @ ELSE @ + 1]
    /\ UNCHANGED <<index, totalFiles, files, embedders, inFlight, outsideIndexer>>

\* fileSearch of pass p resolves with the files of the folder: the total is
\* set and the loop over the files begins.
SearchResolves(p) ==
    /\ passes[p].pc = "search"
    /\ Len(inFlight) < MaxCalls
    /\ LET results == SelectSeq(UriOrder, LAMBDA u : files[u].exists)
           r == PassLoop(p, inFlight, results)
       IN  /\ totalFiles' = Len(results)
           /\ inFlight' = r.inFlight
           /\ passes' = r.passes
           /\ isIndexing' = r.isIndexing
    /\ UNCHANGED <<index, indexedCount, files, embedders, seen, outsideIndexer>>

\* fileSearch of pass p rejects: the finally clears _isIndexing and
\* indexWorkspace rejects.
SearchRejects(p) ==
    /\ passes[p].pc = "search"
    /\ passes' = [passes EXCEPT ![p] = NoPass]
    /\ isIndexing' = FALSE
    /\ UNCHANGED <<index, indexedCount, totalFiles, files, embedders, inFlight, seen,
                   outsideIndexer>>

\* The token of pass p is cancelled while the pass is suspended.
CancelPass(p) ==
    /\ passes[p].pc \in {"search", "file"}
    /\ ~passes[p].cancelled
    /\ passes' = [passes EXCEPT ![p].cancelled = TRUE]
    /\ UNCHANGED <<index, isIndexing, indexedCount, totalFiles, files, embedders,
                   inFlight, seen, outsideIndexer>>

IndexNext ==
    \/ \E u \in Uris, size \in Sizes, v \in Versions : FileAdded(u, size, v)
    \/ \E u \in Uris, size \in Sizes, v \in Versions : FileUpdated(u, size, v)
    \/ \E u \in Uris : FileDeleted(u)
    \/ \E u \in Uris : IndexFile(u)
    \/ \E u \in Uris : RemoveFromIndex(u)
    \/ \E k \in 1..MaxCalls : StatSettles(k)
    \/ \E k \in 1..MaxCalls : ReadSettles(k)
    \/ \E k \in 1..MaxCalls, ok \in BOOLEAN : EmbedSettles(k, ok)
    \/ \E c \in BOOLEAN : IndexWorkspace(c)
    \/ \E p \in 1..MaxPasses : SearchResolves(p)
    \/ \E p \in 1..MaxPasses : SearchRejects(p)
    \/ \E p \in 1..MaxPasses : CancelPass(p)

IndexSpec == IndexInit /\ [][IndexNext]_vars

\* The passes over the workspace while the watcher reports files added and
\* deleted, with every promise an indexWorkspace or indexFile call awaits
\* settling in the end: the file service's stat and readFile, the embedding
\* provider's embed, and the search service's fileSearch (resolved or
\* rejected).
CallSettles(k) ==
    \/ StatSettles(k)
    \/ ReadSettles(k)
    \/ \E ok \in BOOLEAN : EmbedSettles(k, ok)

PassNext ==
    \/ \E u \in Uris, size \in Sizes : FileAdded(u, size, 1)
    \/ \E u \in Uris : FileDeleted(u)
    \/ \E k \in 1..MaxCalls : StatSettles(k)
    \/ \E k \in 1..MaxCalls : ReadSettles(k)
    \/ \E k \in 1..MaxCalls, ok \in BOOLEAN : EmbedSettles(k, ok)
    \/ \E c \in BOOLEAN : IndexWorkspace(c)
    \/ \E p \in 1..MaxPasses : SearchResolves(p)
    \/ \E p \in 1..MaxPasses : SearchRejects(p)
    \/ \E p \in 1..MaxPasses : CancelPass(p)

PassSpec ==
    /\ IndexInit
    /\ [][PassNext]_vars
    /\ \A k \in 1..MaxCalls : WF_vars(CallSettles(k))
    /\ \A p \in 1..MaxPasses : WF_vars(SearchResolves(p) \/ SearchRejects(p))

\* ------------------------------------------------ Ollama's model cache
outsideOllama == <<serviceVars, adapter, indexerVars, calc>>

OllamaInit ==
    /\ ServiceInit
    /\ modelProviders = <<>>
    /\ apiKeys = {}
    /\ adapter = NoAdapter
    /\ IndexerOff
    /\ ollama = NoOllama
    /\ calc = NoCalc

\* A call of getAvailableModels or a configuration change.
OllamaOp == ollama.ops < MaxOllamaOps

\* Time passes.
Tick ==
    /\ ollama.ticks < MaxTicks
    /\ ollama' = [ollama EXCEPT !.now = @ + ClockStep, !.ticks = @ + 1]
    /\ UNCHANGED outsideOllama

\* onDidChangeConfiguration affecting aide.providers.ollama: the base URL is
\* read again, the cache emptied and its time reset.
ConfigurationChanged(url) ==
    /\ OllamaOp
    /\ ollama' = [ollama EXCEPT !.baseUrl = url, !.cachedModels = <<>>,
                                !.lastModelFetch = 0, !.epoch = @ + 1,
                                !.ops = @ + 1]
    /\ UNCHANGED outsideOllama

\* getAvailableModels is called: a cache that is not empty and younger than
\* the TTL is returned at once; otherwise GET <baseUrl>/api/tags is issued.
GetAvailableModels ==
    /\ OllamaOp
    /\ IF /\ Len(ollama.cachedModels) > 0
          /\ ollama.now - ollama.lastModelFetch < ModelCacheTtl
       THEN ollama' = [ollama EXCEPT
                          !.ops = @ + 1,
                          !.returned = Append(@, [models |-> ollama.cachedModels,
                                                  calledIn |-> ollama.epoch,
                                                  fetchedIn |-> ollama.cachedEpoch,
                                                  cached |-> TRUE])]
       ELSE ollama' = [ollama EXCEPT
                          !.ops = @ + 1,
                          !.fetches = Append(@, [url |-> ollama.baseUrl,
                                                 calledIn |-> ollama.epoch])]
    /\ UNCHANGED outsideOllama

\* The fetch of call k is answered with the server's models: they are
\* cached, the time taken, and the call returns them.
FetchResolves(k) ==
    /\ k \in 1..Len(ollama.fetches)
    /\ LET models == ModelInfos(InstalledModels(ollama.fetches[k].url))
       IN  ollama' = [ollama EXCEPT
                         !.cachedModels = models,
                         !.lastModelFetch = ollama.now,
                         !.cachedEpoch = ollama.fetches[k].calledIn,
                         !.fetches = RemoveAt(@, k),
                         !.returned = Append(@, [models |-> models,
                                                 calledIn |-> ollama.fetches[k].calledIn,
                                                 fetchedIn |-> ollama.fetches[k].calledIn,
                                                 cached |-> FALSE])]
    /\ UNCHANGED outsideOllama

\* The fetch of call k rejects or is answered with an error status: the
\* call warns and returns no models.
FetchFails(k) ==
    /\ k \in 1..Len(ollama.fetches)
    /\ ollama' = [ollama EXCEPT
                     !.fetches = RemoveAt(@, k),
                     !.returned = Append(@, [models |-> <<>>,
                                             calledIn |-> ollama.fetches[k].calledIn,
                                             fetchedIn |-> ollama.fetches[k].calledIn,
                                             cached |-> FALSE])]
    /\ UNCHANGED outsideOllama

OllamaNext ==
    \/ Tick
    \/ \E url \in BaseUrls : ConfigurationChanged(url)
    \/ GetAvailableModels
    \/ \E k \in 1..MaxOllamaOps : FetchResolves(k)
    \/ \E k \in 1..MaxOllamaOps : FetchFails(k)

OllamaSpec == OllamaInit /\ [][OllamaNext]_vars

\* --------------------------------------------- a turn up to the request
\* The provider maps the service can hold: providers are registered and
\* unregistered one by one, in any order.
ProviderMaps ==
    { <<>>, <<"openai">>, <<"anthropic">>, <<"ollama">>,
      <<"anthropic", "openai">>, StartupProviders }

\* The service at rest with one agent: any provider map, any keys, the tool
\* registered or not, the agent in any mode and holding any model id (the
\* default of the moment it was created, or one set by updateAgent).
RequestInit ==
    /\ modelProviders \in ProviderMaps
    /\ apiKeys \in SUBSET KeyedProviders
    /\ tools \in { <<>>, <<"read_file">> }
    /\ agentKeys = {1}
    /\ \E m \in Modes, x \in ModelIds :
          agents = [i \in AgentIds |->
                      IF i = 1
                      THEN [mode |-> m, model |-> x, messages |-> <<>>,
                            attachments |-> <<>>]
                      ELSE NoAgent]
    /\ activeAgentId = 1
    /\ store = SavedAgents(agentKeys, agents, activeAgentId)
    /\ fired = Fired(TRUE, TRUE, 1)
    /\ nextId = 2
    /\ pc = "idle"
    /\ cur = NoCall
    /\ cancelled = FALSE
    /\ hist = NoHist
    /\ turns = 0
    /\ envOps = MaxEnvOps
    /\ builtInTimer = "armed"
    /\ adapter = NoAdapter
    /\ IndexerOff
    /\ ollama = NoOllama
    /\ calc = NoCalc

\* A turn from its call to the provider's fetch, and the fetch failing.
RequestNext ==
    \/ \E t \in UserTexts, a \in AttachmentInputs, c \in BOOLEAN :
          SendMessage(1, t, a, c)
    \/ \E t \in UserTexts, a \in AttachmentInputs, c \in BOOLEAN :
          SendMessageStream(1, t, a, c)
    \/ ChatRejects
    \/ StreamRejects
    \/ Return

RequestSpec == RequestInit /\ [][RequestNext]_vars

\* ------------------------------------------- Ollama's request conversion
outsideCalc == <<serviceVars, adapter, indexerVars, ollama>>

\* Everything but the function applied is at rest.
AtRest ==
    /\ ServiceInit
    /\ modelProviders = <<>>
    /\ apiKeys = {}
    /\ adapter = NoAdapter
    /\ IndexerOff
    /\ ollama = NoOllama

\* The messages a request can hold: the system prompt, a user text, an
\* assistant answer of two text items, an assistant answer with a tool call,
\* and the tool messages _handleToolCalls builds for that call.
RequestMessages ==
    LET toolCall == ToolCallItem("call_1", "read_file", "args")
    IN  { Message("system", <<TextItem(BuildSystemPrompt("agent"))>>, NoModel),
          UserMessage(<<"q">>),
          Message("assistant", <<TextItem(<<"h">>), TextItem(<<"i">>)>>,
                  <<"ollama", "/", "llama3">>),
          Message("assistant", <<TextItem(<<"h">>), toolCall>>,
                  <<"ollama", "/", "llama3">>) }
        \cup { ToolResultMessage(toolCall,
                                 ExecuteToolCall(<<"read_file">>, "read_file", b)) :
                  b \in HandlerBehaviours }

RECURSIVE SeqsUpTo(_, _)
SeqsUpTo(S, n) ==
    IF n = 0 THEN { <<>> }
    ELSE SeqsUpTo(S, n - 1)
            \cup { Append(s, x) : s \in { t \in SeqsUpTo(S, n - 1) : Len(t) = n - 1 },
                                  x \in S }

ConvertInit ==
    /\ AtRest
    /\ \E ms \in SeqsUpTo(RequestMessages, MaxMessages) :
          calc = [NoCalc EXCEPT
                    !.fn = "chat",
                    !.input = [model |-> <<"ollama", "/", "llama3">>,
                               messages |-> ms, tools |-> NoTools,
                               stream |-> FALSE]]

\* OllamaProvider.chat up to its fetch.
OllamaChat ==
    /\ calc.fn = "chat"
    /\ ~calc.done
    /\ calc' = [calc EXCEPT !.output = OllamaChatBody(calc.input), !.done = TRUE]
    /\ UNCHANGED outsideCalc

ConvertNext == OllamaChat

ConvertSpec == ConvertInit /\ [][ConvertNext]_vars

\* --------------------------------------------------- cosine similarity
CosineInit ==
    /\ AtRest
    /\ \E a \in SeqsUpTo(Components, MaxDim), b \in SeqsUpTo(Components, MaxDim) :
          calc = [NoCalc EXCEPT !.fn = "cosine", !.input = [a |-> a, b |-> b]]

\* _cosineSimilarity(a, b) is called and returns.
Cosine ==
    /\ calc.fn = "cosine"
    /\ ~calc.done
    /\ calc' = [calc EXCEPT !.output = CosineSimilarity(calc.input.a, calc.input.b),
                            !.done = TRUE]
    /\ UNCHANGED outsideCalc

CosineNext == Cosine

CosineSpec == CosineInit /\ [][CosineNext]_vars

\* -------------------------------------------------------- mention parsing
MentionInit ==
    /\ AtRest
    /\ \E pieces \in SeqsUpTo(TextPieces, MaxPieces) :
          calc = [NoCalc EXCEPT !.fn = "parseMentions", !.input = Flatten(pieces)]

\* parseMentions(text) is called and returns.
ParseMentionsCall ==
    /\ calc.fn = "parseMentions"
    /\ ~calc.done
    /\ calc' = [calc EXCEPT !.output = ParseMentions(calc.input), !.done = TRUE]
    /\ UNCHANGED outsideCalc

MentionNext == ParseMentionsCall

MentionSpec == MentionInit /\ [][MentionNext]_vars

\* ---------------------------------------------------------- the search
\* The context service with an index of up to MaxEntries files, a semantic
\* search about to be called with a limit and a token.
SearchInit ==
    /\ ServiceInit
    /\ modelProviders = <<>>
    /\ apiKeys = {}
    /\ adapter = NoAdapter
    /\ \E n \in 0..MaxEntries, emb \in [1..MaxEntries -> EntryEmbeddings] :
          index = [k \in 1..n |-> IndexedFile(IndexOrder[k], 1, emb[k], 1)]
    /\ isIndexing = FALSE
    /\ indexedCount = Len(index)
    /\ totalFiles = Len(index)
    /\ files = [u \in Uris |-> NoFile]
    /\ embedders \in BOOLEAN
    /\ inFlight = <<>>
    /\ passes = [i \in 1..MaxPasses |-> NoPass]
    /\ seen = NoSeen
    /\ ollama = NoOllama
    /\ \E limit \in 0..MaxEntries, folders \in BOOLEAN :
          calc = [fn |-> "semanticSearch",
                  input |-> [limit |-> limit, folders |-> folders],
                  output |-> <<>>, done |-> FALSE, pc |-> "call",
                  cancelled |-> FALSE, embeds |-> 0, queryEmbedding |-> <<>>,
                  path |-> None]

searchVars == <<serviceVars, adapter, indexerVars, ollama>>

\* lexicalSearch is entered: without a workspace folder it returns nothing,
\* else it awaits the text search.
EnterLexical(c) ==
    IF c.input.folders
    THEN [c EXCEPT !.pc = "textSearch", !.path = "lexical"]
    ELSE [c EXCEPT !.pc = "done", !.done = TRUE, !.output = <<>>, !.path = "lexical"]

\* semanticSearch(query, limit, token) is called: without an embedding
\* provider it hands over to lexicalSearch, else it awaits embed([query]).
SemanticSearch ==
    /\ calc.fn = "semanticSearch"
    /\ calc.pc = "call"
    /\ calc' = IF embedders
               THEN [calc EXCEPT !.pc = "embed", !.embeds = @ + 1]
               ELSE EnterLexical(calc)
    /\ UNCHANGED searchVars

\* The caller cancels the token.
CancelSearch ==
    /\ calc.fn = "semanticSearch"
    /\ ~calc.done
    /\ ~calc.cancelled
    /\ calc' = [calc EXCEPT !.cancelled = TRUE]
    /\ UNCHANGED searchVars

\* results.sort(...).
RankResults(results) == SortOutcomes(results)

\* embed resolves: the entries are scored, sorted and cut to the limit.
EmbedQueryResolves(queryEmbedding) ==
    /\ calc.fn = "semanticSearch"
    /\ calc.pc = "embed"
    /\ \E sorted \in RankResults(ScoreEntries(index, queryEmbedding, calc.cancelled)) :
          calc' = [calc EXCEPT !.pc = "done", !.done = TRUE, !.path = "semantic",
                               !.queryEmbedding = queryEmbedding,
                               !.output = Slice(sorted, calc.input.limit)]
    /\ UNCHANGED searchVars

\* embed rejects: the error is logged and lexicalSearch takes over.
EmbedQueryRejects ==
    /\ calc.fn = "semanticSearch"
    /\ calc.pc = "embed"
    /\ calc' = EnterLexical(calc)
    /\ UNCHANGED searchVars

\* The text search resolves and its matches are mapped to results.
TextSearchResolves(results) ==
    /\ calc.fn = "semanticSearch"
    /\ calc.pc = "textSearch"
    /\ calc' = [calc EXCEPT !.pc = "done", !.done = TRUE, !.output = results]
    /\ UNCHANGED searchVars

\* The text search rejects: the error is logged, nothing is returned.
TextSearchRejects ==
    /\ calc.fn = "semanticSearch"
    /\ calc.pc = "textSearch"
    /\ calc' = [calc EXCEPT !.pc = "done", !.done = TRUE, !.output = <<>>]
    /\ UNCHANGED searchVars

SearchNext ==
    \/ SemanticSearch
    \/ CancelSearch
    \/ \E q \in QueryEmbeddings : EmbedQueryResolves(q)
    \/ EmbedQueryRejects
    \/ \E rs \in LexicalResults : TextSearchResolves(rs)
    \/ TextSearchRejects

SearchSpec == SearchInit /\ [][SearchNext]_vars

\* ------------------------------------------------- the built-in tools
\* The tools _registerBuiltInTools registers, in its order.
BuiltInTools ==
    <<"read_file", "write_file", "edit_file", "search_codebase", "list_directory",
      "run_terminal_command">>

\* The names other contributions register tools under: names of their own,
\* or names the built-in tools use too.
ExternalToolNames == {"read_file", "edit_file", "my_tool"}

\* The registerTool calls of _registerBuiltInTools, one after the other:
\* registerTool throws on a name that is registered already, and the throw
\* leaves _registerBuiltInTools (nothing catches it before the timer does).
RECURSIVE RegisterInTurn(_, _)
RegisterInTurn(toolList, names) ==
    IF names = <<>> THEN toolList
    ELSE IF InSeq(Head(names), toolList) THEN toolList
    ELSE RegisterInTurn(Append(toolList, Head(names)), Tail(names))

\* The service right after construction with the startup providers and one
\* agent in agent mode: the timer of the built-in tools is armed.
ToolsInit ==
    /\ ServiceInit
    /\ modelProviders = StartupProviders
    /\ apiKeys = KeyedProviders
    /\ adapter = NoAdapter
    /\ IndexerOff
    /\ ollama = NoOllama
    /\ calc = NoCalc

\* The 100 ms timer fires, between two synchronous runs of the service:
\* _registerBuiltInTools.
RegisterBuiltInTools ==
    /\ builtInTimer = "armed"
    /\ pc = "idle" \/ Suspended
    /\ builtInTimer' = "done"
    /\ tools' = RegisterInTurn(tools, BuiltInTools)
    /\ UNCHANGED <<modelProviders, apiKeys, agentVars, callVars, envOps, adapter,
                   indexerVars, ollama, calc>>

\* createAgent with its default mode (agent), then turns of that agent,
\* registerTool calls of other contributions and the timer, in any order.
ToolsNext ==
    \/ RegisterBuiltInTools
    \/ \E n \in ExternalToolNames : RegisterTool(n)
    \/ \E up \in BOOLEAN : CreateAgent(up)
    \/ \E t \in UserTexts, c \in BOOLEAN : SendMessage(1, t, <<>>, c)
    \/ Cancel
    \/ Return
    \/ ChatRejects
    \/ \E r \in ProviderResponses(cur.provider, cur.request) : ChatResolves(r)
    \/ \E b \in HandlerBehaviours : DispatchNext(b)
    \/ ToolReturns

ToolsSpec == ToolsInit /\ [][ToolsNext]_vars

\* ------------------------------------------------ the adapters' line buffer
\* The characters of a response body: "d" stands for the prefix 'data: ',
\* "t" for the JSON text of a chunk that carries text, "f" for the JSON text
\* of the chunk that closes the response; a blank and the newline.
NL == "\n"
WireChars == {"d", "t", "f", " ", NL}

\* String.prototype.split('\n'): the pieces between the newlines, at least one.
RECURSIVE SplitLines(_)
SplitLines(s) ==
    IF \A i \in 1..Len(s) : s[i] # NL THEN <<s>>
    ELSE LET i == CHOOSE k \in 1..Len(s) :
                     s[k] = NL /\ \A j \in 1..(k - 1) : s[j] # NL
         IN  <<SubSeq(s, 1, i - 1)>> \o SplitLines(SubSeq(s, i + 1, Len(s)))

\* String.prototype.trim.
RECURSIVE Trim(_)
Trim(s) ==
    IF s = <<>> THEN s
    ELSE IF Head(s) = " " THEN Trim(Tail(s))
    ELSE IF s[Len(s)] = " " THEN Trim(SubSeq(s, 1, Len(s) - 1))
    ELSE s

\* JSON.parse of a line's payload, as the event the adapter of provider p
\* reads from it; a text that is not one JSON value makes JSON.parse throw.
WireJson(p, s) ==
    CASE Trim(s) = <<"t">> ->
            (CASE p = "openai" -> OpenAIEvent(<<"h">>, <<>>, None)
               [] p = "anthropic" ->
                    AnthropicEvent("content_block_delta", 0, "text_delta", "", "",
                                   <<"h">>, None)
               [] OTHER -> OllamaEvent(<<"h">>, FALSE, None))
      [] Trim(s) = <<"f">> ->
            (CASE p = "openai" -> OpenAIEvent(<<>>, <<>>, "stop")
               [] p = "anthropic" ->
                    AnthropicEvent("message_delta", NoIndex, None, "", "", <<>>,
                                   "end_turn")
               [] OTHER -> OllamaEvent(<<>>, TRUE, "stop"))
      [] OTHER -> Malformed

\* The head of `for (const line of lines)`: the event a line is parsed to,
\* none for a blank line and, with OpenAI and Anthropic, for a line without
\* the 'data: ' prefix.
LineEvents(p, line) ==
    LET trimmed == Trim(line)
    IN  IF trimmed = <<>> THEN <<>>
        ELSE IF p = "ollama" THEN <<WireJson(p, trimmed)>>
        ELSE IF Head(trimmed) = "d" THEN <<WireJson(p, Tail(trimmed))>>
        ELSE <<>>

\* A remainder that is thrown away (a variant of Remainder: C33 rests on the
\* partial line being kept for the next read).
RemainderDropped(lines) == <<>>

\* buffer = lines.pop() || '': the piece after the last newline.
Remainder(lines) == lines[Len(lines)]

\* `for (const line of lines)` over the complete lines of a read.
RECURSIVE HandleLines(_, _)
HandleLines(a, lines) ==
    IF lines = <<>> THEN a
    ELSE LET es == LineEvents(a.provider, Head(lines))
             r == IF es = <<>>
                  THEN [buffers |-> a.buffers, chunks |-> <<>>, errors |-> 0]
                  ELSE HandleLine(a.provider, a.buffers, es[1])
         IN  HandleLines([a EXCEPT !.buffers = r.buffers,
                                   !.emitted = @ \o r.chunks,
                                   !.errors = @ + r.errors,
                                   !.fed = @ \o es],
                         Tail(lines))

\* One round of the read loop on the bytes a read brought.
AfterRead(a, bytes) ==
    LET lines == SplitLines(a.buffer \o bytes)
    IN  [HandleLines(a, SubSeq(lines, 1, Len(lines) - 1))
            EXCEPT !.buffer = Remainder(lines)]

\* chatStream of provider p at its first read of a response with this body.
WireStart(p, body) ==
    [provider |-> p, pc |-> "read", body |-> body, pos |-> 0, reads |-> 0,
     buffer |-> <<>>, buffers |-> <<>>, emitted |-> <<>>, errors |-> 0, fed |-> <<>>]

\* Any provider, any body; the token is never cancelled.
WireInit ==
    /\ ServiceInit
    /\ modelProviders = StartupProviders
    /\ apiKeys = KeyedProviders
    /\ \E p \in ProviderIds, body \in SeqsUpTo(WireChars, MaxBytes) :
          adapter = WireStart(p, body)
    /\ IndexerOff
    /\ ollama = NoOllama
    /\ calc = NoCalc

\* reader.read() resolves with the next n bytes of the body: they are
\* decoded and added to the buffer, and the complete lines are handled.
ReadBytes(n) ==
    /\ adapter.pc = "read"
    /\ adapter.pos + n <= Len(adapter.body)
    /\ adapter' = [AfterRead(adapter, SubSeq(adapter.body, adapter.pos + 1,
                                             adapter.pos + n))
                      EXCEPT !.pos = @ + n, !.reads = @ + 1]
    /\ UNCHANGED outsideStream

\* reader.read() resolves with done when the body is used up: the loop is
\* left and the generator returns.
ReadEnds ==
    /\ adapter.pc = "read"
    /\ adapter.pos = Len(adapter.body)
    /\ adapter' = [adapter EXCEPT !.pc = "done"]
    /\ UNCHANGED outsideStream

WireNext ==
    \/ \E n \in 1..MaxBytes : ReadBytes(n)
    \/ ReadEnds

WireSpec == WireInit /\ [][WireNext]_vars

\* ---------------------------------------------------------- observations
\* The message list of the agent of the call in flight, when the call was
\* made and now (both are read only while a call is in flight).
Before == hist.preAgents[cur.agent].messages
Now == agents[cur.agent].messages

\* The list now is the list before the call followed by k more messages.
Grown(k) ==
    /\ Len(Now) = Len(Before) + k
    /\ SubSeq(Now, 1, Len(Before)) = Before

\* The i-th message the call added.
Added(i) == Now[Len(Before) + i]

\* The call in flight has settled with this outcome.
Ended(outcome) == pc = "ended" /\ hist.outcome = outcome

\* The tool_call items of the response that reach the assistant message:
\* all of them in a blocking turn, those with a tool name in a streaming one.
RECURSIVE NamedOnly(_)
NamedOnly(s) ==
    IF s = <<>> THEN <<>>
    ELSE IF Truthy(Head(s).toolName)
         THEN <<Head(s)>> \o NamedOnly(Tail(s))
         ELSE NamedOnly(Tail(s))

CarriedToolCalls ==
    IF cur.kind = "stream" THEN NamedOnly(hist.toolCalls) ELSE hist.toolCalls

\* The i-th added tool message is the result of this tool call.
IsResultOf(message, toolCall) ==
    /\ message.role = "tool"
    /\ Len(message.content) = 1
    /\ message.content[1].type = "tool_result"
    /\ message.content[1].toolCallId = toolCall.toolCallId
    /\ message.content[1].toolResult[2] = toolCall.toolName

\* No registered provider's id, followed by '/' or ':', starts the model id.
NoPrefixMatch(providers, modelId) ==
    \A i \in 1..Len(providers) :
        /\ ~StartsWith(modelId, providers[i], "/")
        /\ ~StartsWith(modelId, providers[i], ":")

\* ------------------------------------------------------------------- C1
\* C1: a sendMessage or sendMessageStream call for an agent id that is not
\* in the agent map ends at once with the not-found error, has invoked no
\* provider, and leaves every agent's messages and attachments, the active
\* agent id and the persisted store as they were.
C1_UnknownAgentChangesNothing ==
    (pc # "idle" /\ cur.agent \notin hist.preKeys) =>
        /\ Ended("not_found")
        /\ hist.providerCalls = 0
        /\ cur.provider = None
        /\ agents = hist.preAgents
        /\ activeAgentId = hist.preActive
        /\ store = hist.preStore

\* A streaming call for an unknown id has failed while an agent with
\* messages, saved in the store, exists.
C1_Witness ==
    /\ Ended("not_found")
    /\ cur.kind = "stream"
    /\ \E i \in hist.preKeys : hist.preAgents[i].messages # <<>>
    /\ hist.preStore # NoStore

\* ------------------------------------------------------------------- C2
\* C2: when a sendMessage or sendMessageStream turn has completed with the
\* finish reason stop, the agent's list is the list L it had before, then
\* the user message, then one assistant message; no tool was executed and
\* no tool message was appended.
C2_StopTurnAddsUserThenAssistant ==
    (Ended("ok") /\ hist.finish = "stop") =>
        /\ Grown(2)
        /\ Added(1) = UserMessage(hist.content)
        /\ Added(2).role = "assistant"
        /\ hist.dispatched = <<>>
        /\ hist.toolRounds = 0

\* A turn on an agent with earlier messages has completed with stop although
\* its response carried a tool call.
C2_Witness ==
    /\ Ended("ok")
    /\ hist.finish = "stop"
    /\ Before # <<>>
    /\ ToolCallsOf(Now[Len(Now)].content) # <<>>

C4_StreamTurnAddsOneAssistant ==
    (pc = "ended" /\ cur.kind = "stream" /\ hist.opened) =>
        /\ Len(Now) >= Len(Before)
        /\ Cardinality({ i \in (Len(Before) + 1)..Len(Now) :
                            Now[i].role = "assistant" }) = 1

\* ------------------------------------------------------------------- C5
\* C5: when the provider's stream has failed after chunks were received,
\* the error has reached the caller and sendMessageStream has appended,
\* after the user message, an assistant message carrying the content
\* accumulated from those chunks.
C5_FailedStreamKeepsAccumulated ==
    (Ended("stream_error") /\ cur.kind = "stream" /\ hist.yielded # <<>>) =>
        /\ Grown(2)
        /\ Added(2) = AssistantOfStream(cur.acc, agents[cur.agent])

\* ------------------------------------------------------------------- C6
\* C6: a call for an existing agent whose model id no registered provider's
\* id is a prefix of ends at once with the no-provider error and calls no
\* provider's chat or chatStream.
C6_NoPrefixNoProviderCall ==
    (/\ pc # "idle"
     /\ cur.agent \in hist.preKeys
     /\ NoPrefixMatch(hist.preProviders, hist.preAgents[cur.agent].model)) =>
        /\ Ended("no_provider")
        /\ hist.providerCalls = 0

\* ------------------------------------------------------------------- C7
\* C7: after a turn failed with the no-provider error the agent's list is
\* the list before the turn followed by the user message and nothing else;
\* and when the next call was a retry of the same message for the same
\* agent, then after it the list still holds that user message once among
\* the messages added since the failed turn began.
C7_RetryAddsNoDuplicate ==
    /\ Ended("no_provider") =>
          /\ Grown(1)
          /\ Added(1) = UserMessage(hist.content)
    /\ (/\ pc = "ended"
        /\ hist.prev.outcome = "no_provider"
        /\ hist.prev.agent = cur.agent
        /\ hist.prev.content = hist.content
        /\ cur.agent \in hist.preKeys) =>
          Cardinality({ i \in (Len(hist.prev.base) + 1)..Len(Now) :
                           Now[i] = UserMessage(hist.content) }) = 1

\* ------------------------------------------------------------------- C8
\* C8: a turn that has aborted with a configuration error (the selected
\* provider has no API key) or with a not-found error leaves the agent as it
\* was before the call: no message and no attachment was added.
C8_ConfigErrorLeavesAgent ==
    (pc = "ended" /\ hist.outcome \in {"config_error", "not_found"}) =>
        agents[cur.agent] = hist.preAgents[cur.agent]

\* ------------------------------------------------------------------- C9
\* C9: the chunks sendMessageStream has yielded are the chunks the
\* provider's chatStream has produced, same values, same order; a chunk is
\* yielded before the next one is pulled, so at most the chunk in hand is
\* produced and not yet yielded.
C9_YieldedIsProduced ==
    /\ Len(hist.yielded) <= Len(hist.produced)
    /\ hist.yielded = SubSeq(hist.produced, 1, Len(hist.yielded))
    /\ IF pc = "chunk"
       THEN Len(hist.produced) = Len(hist.yielded) + 1
       ELSE hist.produced = hist.yielded

\* A streamed turn has ended after four chunks, a tool_call chunk and a
\* chunk with a finish reason among them.
C9_Witness ==
    /\ Ended("ok")
    /\ Len(hist.yielded) = 4
    /\ \E i \in 1..4 : hist.yielded[i].delta.type = "tool_call"
    /\ hist.yielded[4].finishReason = "tool_calls"

\* ------------------------------------------------------------------ C10
\* C10: one sendMessage or sendMessageStream call invokes the provider at
\* most once and runs at most one tool dispatch round; once the round has
\* begun the call only dispatches and ends, and no assistant message
\* follows a tool message among the messages the call added.
C10_OneProviderCallOneRound ==
    /\ hist.providerCalls <= 1
    /\ hist.toolRounds <= 1
    /\ hist.toolRounds = 1 => pc \in {"dispatch", "handler", "ended"}
    /\ pc # "idle" =>
          \A i, j \in (Len(Before) + 1)..Len(Now) :
              (i < j /\ Now[i].role = "tool") => Now[j].role = "tool"

\* A turn has ended after a dispatch round of two tool calls.
C10_Witness ==
    /\ Ended("ok")
    /\ hist.toolRounds = 1
    /\ Len(hist.dispatched) = 2
    /\ Grown(4)

\* ------------------------------------------------------------------ C11
\* C11: once the token is cancelled during tool dispatch, executeToolCall is
\* called for no further tool call, and the messages of the agent's list,
\* the tool messages already appended among them, stay where they are.
C11_NoDispatchAfterCancel ==
    [][ (cancelled /\ pc \in {"dispatch", "handler"}) =>
            /\ hist'.dispatched = hist.dispatched
            /\ Len(agents'[cur.agent].messages) >= Len(Now)
            /\ SubSeq(agents'[cur.agent].messages, 1, Len(Now)) = Now ]_vars

\* The token was cancelled while the first handler ran; its tool message is
\* in the list and a second tool call waits, not started.
C11_Witness ==
    /\ pc = "dispatch"
    /\ cancelled
    /\ hist.cancelledAt = "handler"
    /\ cur.queue # <<>>
    /\ Len(hist.dispatched) = 1
    /\ Now[Len(Now)].role = "tool"

\* ------------------------------------------------------------------ C12
\* C12: for every tool call dispatched, once executeToolCall has returned,
\* one tool message is appended that holds one tool_result item with the
\* call id of that tool call and the result and error flag executeToolCall
\* returned; and every tool message of every agent's list comes after an
\* assistant message holding a tool_call with the same call id.
C12_OneToolMessagePerDispatch ==
    /\ \A a \in AgentIds : \A k \in 1..Len(agents[a].messages) :
          LET m == agents[a].messages[k]
          IN  m.role = "tool" =>
                /\ Len(m.content) = 1
                /\ m.content[1].type = "tool_result"
                /\ \E j \in 1..(k - 1) :
                      /\ agents[a].messages[j].role = "assistant"
                      /\ \E x \in 1..Len(agents[a].messages[j].content) :
                            /\ agents[a].messages[j].content[x].type = "tool_call"
                            /\ agents[a].messages[j].content[x].toolCallId
                                  = m.content[1].toolCallId
    /\ (pc \in {"dispatch", "handler", "ended"} /\ hist.toolRounds = 1) =>
          LET returned == IF pc = "handler" THEN Len(hist.dispatched) - 1
                          ELSE Len(hist.dispatched)
          IN  /\ Grown(2 + returned)
              /\ \A i \in 1..returned :
                    /\ Added(2 + i).role = "tool"
                    /\ Len(Added(2 + i).content) = 1
                    /\ Added(2 + i).content[1].type = "tool_result"
                    /\ Added(2 + i).content[1].toolCallId = hist.dispatched[i].toolCallId
                    /\ Added(2 + i).content[1].toolResult = hist.results[i].result
                    /\ Added(2 + i).content[1].isError = hist.results[i].isError

\* Two tool calls were dispatched on an agent with earlier messages; one
\* result is an error and one is not.
C12_Witness ==
    /\ Ended("ok")
    /\ Len(hist.dispatched) = 2
    /\ Before # <<>>
    /\ hist.results[1].isError # hist.results[2].isError

\* ------------------------------------------------------------------ C13
\* C13: executeToolCall always returns a result: for a name that is not
\* registered, one with the error flag set; when the handler throws, one
\* with the error flag set that carries the exception's message; and a turn
\* that dispatched tools never ends as a failed call.
C13_ToolFailuresBecomeResults ==
    /\ Len(hist.results) = Len(hist.dispatched)
    /\ \A i \in 1..Len(hist.results) :
          LET name == hist.dispatched[i].toolName
              r == hist.results[i]
          IN  /\ ~hist.behaviours[i].registered =>
                    (r.isError /\ r.result = <<"not found", name>>)
              /\ (hist.behaviours[i].registered /\ hist.behaviours[i].handler = "throw") =>
                    (r.isError /\ r.result = <<"exception", name>>)
    /\ (pc = "ended" /\ hist.toolRounds = 1) => hist.outcome = "ok"

\* A turn has ended after a registered tool's handler threw and a tool that
\* is not registered was asked for.
C13_Witness ==
    /\ Ended("ok")
    /\ Len(hist.results) = 2
    /\ hist.behaviours[1].registered
    /\ hist.behaviours[1].handler = "throw"
    /\ ~hist.behaviours[2].registered

\* ------------------------------------------------------------------ C14
\* C14: the completion request built for a turn carries a tool list if and
\* only if the agent's mode is agent, and then it is the registry's list;
\* in plan, debug and ask mode the request has no tool list.
C14_ToolsOnlyInAgentMode ==
    (pc # "idle" /\ cur.provider # None) =>
        LET mode == hist.preAgents[cur.agent].mode
        IN  /\ (cur.request.tools # NoTools) <=> (mode = "agent")
            /\ mode = "agent" => cur.request.tools = hist.preTools

\* A request was built, without a tool list, for an agent in ask mode.
C14_Witness ==
    /\ pc = "fetch"
    /\ hist.preAgents[cur.agent].mode = "ask"
    /\ cur.request.tools = NoTools

\* ------------------------------------------------ the stream, observed
\* The chunks the adapter yielded while it handled line j of its response,
\* and the tool_call chunks among them.
YieldedOn(j) ==
    LET ks == {k \in 1..Len(adapter.at) : adapter.at[k] = j}
    IN  [n \in 1..Cardinality(ks) |->
            adapter.emitted[(CHOOSE k \in ks : \A l \in ks : k <= l) + n - 1]]

IsToolCall(c) == c.delta.type = "tool_call"
IsText(c) == c.delta.type = "text"

ToolCallsOn(j) == SelectSeq(YieldedOn(j), IsToolCall)

\* The tool-call fragments of lines 1..j of an OpenAI response, in arrival
\* order.
RECURSIVE FragmentsOf(_)
FragmentsOf(events) ==
    IF events = <<>> THEN <<>>
    ELSE (IF Head(events).type = "chunk" THEN Head(events).toolCalls ELSE <<>>)
            \o FragmentsOf(Tail(events))

FragmentsUpTo(j) == FragmentsOf(SubSeq(adapter.fed, 1, j))

\* The call indexes of fragments, each once, in the order of first arrival.
RECURSIVE ArrivalOrder(_)
ArrivalOrder(frags) ==
    IF frags = <<>> THEN <<>>
    ELSE LET rest == ArrivalOrder(SubSeq(frags, 1, Len(frags) - 1))
             i == frags[Len(frags)].index
         IN  IF \E k \in 1..Len(rest) : rest[k] = i THEN rest ELSE Append(rest, i)

\* The argument text of call index i: its fragments' arguments concatenated
\* in arrival order.
RECURSIVE ArgumentsOf(_, _)
ArgumentsOf(frags, i) ==
    IF frags = <<>> THEN <<>>
    ELSE (IF Head(frags).index = i THEN Head(frags).arguments ELSE <<>>)
            \o ArgumentsOf(Tail(frags), i)

\* The name (the id) call index i's fragments carry: that of the last
\* fragment of the index that has one, "" when none has.
RECURSIVE NameOf(_, _)
NameOf(frags, i) ==
    IF frags = <<>> THEN ""
    ELSE LET f == frags[Len(frags)]
         IN  IF f.index = i /\ f.name # "" THEN f.name
             ELSE NameOf(SubSeq(frags, 1, Len(frags) - 1), i)

RECURSIVE IdOf(_, _)
IdOf(frags, i) ==
    IF frags = <<>> THEN ""
    ELSE LET f == frags[Len(frags)]
         IN  IF f.index = i /\ f.id # "" THEN f.id
             ELSE IdOf(SubSeq(frags, 1, Len(frags) - 1), i)

\* The call indexes of fragments whose argument text parses, in arrival order.
Parsing(frags) ==
    SelectSeq(ArrivalOrder(frags), LAMBDA i : JsonParse(ArgumentsOf(frags, i)).ok)

\* Line j of an OpenAI response carries the finish reason tool_calls.
FinishesToolCalls(j) ==
    adapter.fed[j].type = "chunk" /\ adapter.fed[j].finish = "tool_calls"

\* ------------------------------------------------------------------ C15
\* C15: in OpenAI's streaming mode, whatever tool-call fragments arrived
\* (one index or several, interleaved, the arguments split anywhere) when a
\* line with the finish reason tool_calls is handled, the adapter yields on
\* that line exactly one tool_call chunk per call index (whose argument text
\* parses, see C17), with the name the index's fragments carry and the
\* arguments the parse of the index's argument fragments concatenated in
\* arrival order.
C15_OneToolCallPerIndex ==
    adapter.provider = "openai" =>
        \A j \in 1..Len(adapter.fed) :
            FinishesToolCalls(j) =>
                LET frags == FragmentsUpTo(j)
                    due == Parsing(frags)
                IN  /\ Len(ToolCallsOn(j)) = Len(due)
                    /\ \A n \in 1..Len(due) :
                          /\ ToolCallsOn(j)[n].delta.toolName = NameOf(frags, due[n])
                          /\ ToolCallsOn(j)[n].delta.toolCallId = IdOf(frags, due[n])
                          /\ ToolCallsOn(j)[n].delta.toolArguments
                                = JsonValue(ArgumentsOf(frags, due[n]))

\* Two calls, their fragments interleaved and the arguments of the first
\* split in two, come out as two tool_call chunks: -1 for read_file, 1 for
\* the call that was given no name.
C15_Witness ==
    /\ adapter.provider = "openai"
    /\ Len(adapter.fed) = 4
    /\ FinishesToolCalls(4)
    /\ ArrivalOrder(FragmentsUpTo(4)) = <<0, 1>>
    /\ Len(ToolCallsOn(4)) = 2
    /\ ToolCallsOn(4)[1].delta.toolName = "read_file"
    /\ ToolCallsOn(4)[1].delta.toolArguments = [negative |-> TRUE, digits |-> 1]
    /\ ToolCallsOn(4)[2].delta.toolName = ""
    /\ ToolCallsOn(4)[2].delta.toolArguments = [negative |-> FALSE, digits |-> 1]

\* ------------------------------------------------------------------ C16
\* Line j of an Anthropic response is the content_block_stop of a tool_use
\* block that an earlier line started; StartOf(j) is that line.
Starts(l, i) ==
    /\ adapter.fed[l].type = "content_block_start"
    /\ adapter.fed[l].kind = "tool_use"
    /\ adapter.fed[l].index = i

StopsBlock(j) ==
    /\ adapter.fed[j].type = "content_block_stop"
    /\ \E l \in 1..(j - 1) : Starts(l, adapter.fed[j].index)

StartOf(j) ==
    CHOOSE l \in 1..(j - 1) :
        /\ Starts(l, adapter.fed[j].index)
        /\ \A m \in (l + 1)..(j - 1) : ~Starts(m, adapter.fed[j].index)

\* The partial_json of the input_json_delta events for block index i among
\* events, concatenated in arrival order.
RECURSIVE InputJsonOf(_, _)
InputJsonOf(events, i) ==
    IF events = <<>> THEN <<>>
    ELSE (IF /\ Head(events).type = "content_block_delta"
             /\ Head(events).kind = "input_json_delta"
             /\ Head(events).index = i
          THEN Head(events).text ELSE <<>>)
            \o InputJsonOf(Tail(events), i)

\* The provider's completion signal is handled on line j.
CompletionSignal(j) ==
    CASE adapter.provider = "openai" -> FinishesToolCalls(j)
      [] adapter.provider = "anthropic" -> StopsBlock(j)
      [] OTHER -> FALSE

\* Chunk c is the tool call a completion signal on line j completes: for
\* OpenAI a call index whose fragments up to line j make up c, for Anthropic
\* the block line j stops, with all its input between start and stop.
CompletedOn(c, j) ==
    CASE adapter.provider = "openai" ->
            \E i \in CallIndexes :
                LET frags == FragmentsUpTo(j)
                IN  /\ \E n \in 1..Len(frags) : frags[n].index = i
                    /\ JsonParse(ArgumentsOf(frags, i)).ok
                    /\ c.delta.toolArguments = JsonValue(ArgumentsOf(frags, i))
                    /\ c.delta.toolName = NameOf(frags, i)
                    /\ c.delta.toolCallId = IdOf(frags, i)
      [] adapter.provider = "anthropic" ->
            LET input == InputJsonOf(SubSeq(adapter.fed, StartOf(j) + 1, j - 1),
                                     adapter.fed[j].index)
            IN  /\ JsonParse(input).ok
                /\ c.delta.toolArguments = JsonValue(input)
                /\ c.delta.toolName = adapter.fed[StartOf(j)].name
                /\ c.delta.toolCallId = adapter.fed[StartOf(j)].id
      [] OTHER -> FALSE

\* C16: an adapter yields a tool_call chunk only while it handles the
\* provider's completion signal (OpenAI: a line with the finish reason
\* tool_calls; Anthropic: the content_block_stop of the call's block), and
\* the chunk is built from everything buffered for the call by then, never
\* from a part of it; when no signal has been handled, whatever is buffered
\* (also when the stream has ended or was cancelled) no tool_call chunk has
\* been yielded.
C16_ToolCallOnlyOnCompletion ==
    /\ \A k \in 1..Len(adapter.emitted) :
          IsToolCall(adapter.emitted[k]) =>
              /\ CompletionSignal(adapter.at[k])
              /\ CompletedOn(adapter.emitted[k], adapter.at[k])
    /\ (\A j \in 1..Len(adapter.fed) : ~CompletionSignal(j)) =>
          SelectSeq(adapter.emitted, IsToolCall) = <<>>

\* An OpenAI stream ended by cancellation after one call was completed and
\* yielded on line 2, with arguments that parse buffered for a second call
\* that no finish reason followed: that call was never yielded.
C16_Witness ==
    /\ adapter.provider = "openai"
    /\ adapter.pc = "done"
    /\ adapter.cancelled
    /\ Len(adapter.fed) >= 2
    /\ FinishesToolCalls(2)
    /\ Len(ToolCallsOn(2)) = 1
    /\ Len(adapter.buffers) = 2
    /\ JsonParse(adapter.buffers[2].arguments).ok
    /\ Len(SelectSeq(adapter.emitted, IsToolCall)) = 1

\* ------------------------------------------------------------------ C17
\* The input buffered for the block that line j of an Anthropic response stops.
BlockInput(j) ==
    InputJsonOf(SubSeq(adapter.fed, StartOf(j) + 1, j - 1), adapter.fed[j].index)

\* How many tool calls come up for emission on line j with arguments that
\* parse, and how many with arguments that do not.
DueOn(j) ==
    CASE adapter.provider = "openai" ->
            IF FinishesToolCalls(j) THEN Len(Parsing(FragmentsUpTo(j))) ELSE 0
      [] adapter.provider = "anthropic" ->
            IF StopsBlock(j) /\ JsonParse(BlockInput(j)).ok THEN 1 ELSE 0
      [] OTHER -> 0

UnparsedOn(j) ==
    CASE adapter.provider = "openai" ->
            IF FinishesToolCalls(j)
            THEN Len(ArrivalOrder(FragmentsUpTo(j))) - Len(Parsing(FragmentsUpTo(j)))
            ELSE 0
      [] adapter.provider = "anthropic" ->
            IF StopsBlock(j) /\ ~JsonParse(BlockInput(j)).ok THEN 1 ELSE 0
      [] OTHER -> 0

\* The failures logged up to line j: one for each line that is not JSON, one
\* for each tool call whose arguments did not parse when it came up.
RECURSIVE LoggedUpTo(_)
LoggedUpTo(j) ==
    IF j = 0 THEN 0
    ELSE LoggedUpTo(j - 1)
            + (IF adapter.fed[j].type = "malformed" THEN 1 ELSE UnparsedOn(j))

\* Line j carries text.
CarriesText(j) ==
    CASE adapter.fed[j].type = "malformed" -> FALSE
      [] adapter.fed[j].type # "malformed" /\ adapter.provider = "anthropic" ->
            /\ adapter.fed[j].type = "content_block_delta"
            /\ adapter.fed[j].kind = "text_delta"
            /\ adapter.fed[j].text # <<>>
      [] OTHER -> adapter.fed[j].content # <<>>

\* C17: when the argument text of a streamed tool call does not parse as
\* JSON as the call comes up for emission, the call is left out and the
\* failure logged; every other tool call that comes up on the line and every
\* text delta, before and after, is yielded all the same, and the stream does
\* not fail (it fails only when a read of the body rejects).
C17_UnparsedCallOmittedOnly ==
    /\ \A j \in 1..Len(adapter.fed) :
          /\ Len(ToolCallsOn(j)) = DueOn(j)
          /\ \A n \in 1..Len(ToolCallsOn(j)) : CompletedOn(ToolCallsOn(j)[n], j)
          /\ Len(SelectSeq(YieldedOn(j), IsText)) = IF CarriesText(j) THEN 1 ELSE 0
    /\ adapter.errors = LoggedUpTo(Len(adapter.fed))
    /\ adapter.pc = "failed" => adapter.failed

\* An OpenAI stream with two calls buffered when the finish reason comes on
\* line 3: the arguments of the first ("-") do not parse, those of the second
\* do.  The second call alone is yielded, one failure is logged, and the text
\* of line 4 is yielded after that.
C17_Witness ==
    /\ adapter.provider = "openai"
    /\ Len(adapter.fed) = 4
    /\ FinishesToolCalls(3)
    /\ ArrivalOrder(FragmentsUpTo(3)) = <<0, 1>>
    /\ Parsing(FragmentsUpTo(3)) = <<1>>
    /\ Len(ToolCallsOn(3)) = 1
    /\ ToolCallsOn(3)[1].delta.toolArguments = [negative |-> FALSE, digits |-> 1]
    /\ adapter.errors = 1
    /\ Len(SelectSeq(YieldedOn(4), IsText)) = 1
    /\ adapter.pc # "failed"

\* ------------------------------------------------------------------ C18
\* C18: in each of the three adapters, once the token is cancelled during
\* streaming no read is issued any more; at its next check at the top of the
\* loop the adapter ends the stream without throwing (it returns, yielding
\* nothing more) and the reader's lock is released.
C18_CancelledStopsReading ==
    [][ /\ adapter.cancelled => adapter'.reads = adapter.reads
        /\ (adapter.cancelled /\ adapter.pc = "top") =>
              /\ adapter'.pc = "done"
              /\ ~adapter'.locked
              /\ adapter'.emitted = adapter.emitted
        /\ adapter.pc = "done" => adapter' = adapter ]_vars

\* Ollama's stream cancelled while the first of the two lines of its first
\* read was being handled: the second line was handled too, then the check
\* ended the stream, after one read, with the reader released.
C18_Witness ==
    /\ adapter.provider = "ollama"
    /\ adapter.pc = "done"
    /\ adapter.cancelled
    /\ adapter.cancelledAt = "lines"
    /\ adapter.reads = 1
    /\ Len(adapter.fed) = 2
    /\ adapter.emitted # <<>>
    /\ ~adapter.locked

\* ------------------------------------------------------------------ C21
\* C21: whatever the interleaving of watcher events with indexFile calls in
\* flight, once the last watcher event for a locator is a delete that has
\* been handled and no index operation is pending, the index holds no entry
\* for the locator.
C21_DeletedStaysOut ==
    \A u \in Uris :
        (seen.lastEvent[u] = "delete" /\ inFlight = <<>>) =>
            EntriesOf(index, u) = <<>>

\* ------------------------------------------------------------------ C22
\* The indexWorkspace calls that are running a pass.
ActivePasses == {p \in 1..MaxPasses : passes[p].pc # "off"}

\* C22: at most one indexWorkspace pass is active at any time (and
\* _isIndexing tells whether one is); an indexWorkspace call made while a
\* pass is running returns without enumerating files and leaves _isIndexing,
\* the counters, the index and the running pass as they are.
C22_OnePassAtATime ==
    /\ [](Cardinality(ActivePasses) <= 1 /\ (isIndexing <=> ActivePasses # {}))
    /\ [][ (ActivePasses # {} /\ seen'.passesMade # seen.passesMade) =>
              /\ seen'.refused = seen.refused + 1
              /\ seen'.enumerated = seen.enumerated
              /\ UNCHANGED <<index, isIndexing, indexedCount, totalFiles, passes,
                             inFlight>> ]_vars

\* A second indexWorkspace call was made, and refused, while the first was
\* awaiting indexFile on a file of the folder: one enumeration took place,
\* the first pass is still running.
C22_Witness ==
    /\ seen.passesMade = 2
    /\ seen.refused = 1
    /\ seen.enumerated = 1
    /\ isIndexing
    /\ passes[1].pc = "file"
    /\ passes[2] = NoPass
    /\ inFlight # <<>>

\* ------------------------------------------------------------------ C23
\* C23: however often indexFile ran on a locator, the index holds at most
\* one entry for it, and after a call stored its entry exactly that entry:
\* the entry the latest storing call built, in every field (content,
\* embedding, modification time), nothing of an earlier entry surviving.
C23_ReindexReplaces ==
    \A u \in Uris :
        /\ Len(EntriesOf(index, u)) <= 1
        /\ EntriesOf(index, u) # <<>> =>
              /\ seen.built[u] # <<>>
              /\ EntriesOf(index, u) = <<seen.built[u][Len(seen.built[u])]>>

\* indexFile ran twice on a.ts: the first call stored an entry with an
\* embedding; the file changed, and the embed of the second call failed.
\* The index holds the second entry alone, without embedding.
C23_Witness ==
    /\ Len(seen.built["a.ts"]) = 2
    /\ seen.built["a.ts"][1].embedding.has
    /\ seen.built["a.ts"][1].content = 1
    /\ index = <<IndexedFile("a.ts", 2, NoEmbedding, 2)>>
    /\ inFlight = <<>>

\* ------------------------------------------------------------------ C24
\* C24: the index never holds an entry for a file whose size, at the most
\* recent indexFile call that looked at it, exceeded 1 MiB; with no call in
\* flight, so that the most recent call is the one that returned last.
C24_NoEntryOverCeiling ==
    \A u \in Uris :
        (seen.lastSize[u] > SizeCeiling /\ inFlight = <<>>) =>
            EntriesOf(index, u) = <<>>

\* ------------------------------------------------------------------ C25
\* C25: a getAvailableModels call made after a configuration change that
\* affects the Ollama adapter never returns a model list fetched under an
\* earlier configuration, a fetch in flight at the moment of the change
\* included: every list a call returned was fetched under the configuration
\* in force when the call was made, or a later one.
C25_NoStaleModelList ==
    \A n \in 1..Len(ollama.returned) :
        ollama.returned[n].models # <<>> =>
            ollama.returned[n].fetchedIn >= ollama.returned[n].calledIn

\* ------------------------------------------------------------------ C27
\* C27: the body an adapter posts carries a tools field only when the
\* supportsTools flag of the request's model is true; for a model whose flag
\* is not true the body has no tools field.
C27_ToolsOnlyForToolModels ==
    (pc \in {"fetch", "sfetch"} /\ BodyTools(cur.provider, cur.request).present)
        => SupportsTools(cur.request.model)

\* ------------------------------------------------------------------ C26
\* A text holds a part: the part is a run of consecutive characters of it.
C26_Holds(text, part) ==
    \E i \in 0..(Len(text) - Len(part)) : SubSeq(text, i + 1, i + Len(part)) = part

\* C26: the Ollama adapter turns every tool-role message of the request into
\* a user-role message whose content is the tool result as text: the body
\* has one message per request message, and the one for a tool message has
\* role user and a content that holds the result of each of its tool_result
\* items.
C26_ToolResultReachesModel ==
    (calc.fn = "chat" /\ calc.done) =>
        /\ Len(calc.output.messages) = Len(calc.input.messages)
        /\ \A k \in 1..Len(calc.input.messages) :
              calc.input.messages[k].role = "tool" =>
                  /\ calc.output.messages[k].role = "user"
                  /\ \A item \in { calc.input.messages[k].content[j] :
                                      j \in 1..Len(calc.input.messages[k].content) } :
                        item.type = "tool_result" =>
                            C26_Holds(calc.output.messages[k].content, item.toolResult)

\* ------------------------------------------------------------------ C29
\* Every component of the vector is 0.
C29_ZeroMagnitude(v) == \A i \in 1..Len(v) : v[i] = Zero

\* The sum of the products a[i] * b[i] whose exponent of Huge is k, over the
\* first n components, in exact arithmetic.
RECURSIVE C29_ExactDot(_, _, _, _)
C29_ExactDot(a, b, n, k) ==
    IF n = 0 THEN 0
    ELSE C29_ExactDot(a, b, n - 1, k)
            + (IF a[n].e + b[n].e = k THEN a[n].m * b[n].m ELSE 0)

C29_Orthogonal(a, b) ==
    /\ Len(a) = Len(b)
    /\ \A k \in 0..(2 * MaxExponent) : C29_ExactDot(a, b, Len(a), k) = 0

\* C29: cosineSimilarity returns exactly 0 when the two vectors differ in
\* length, when either has zero magnitude, and when they are orthogonal.
C29_ZeroForDegenerateAndOrthogonal ==
    (calc.fn = "cosine" /\ calc.done) =>
        LET a == calc.input.a
            b == calc.input.b
        IN  ( \/ Len(a) # Len(b)
              \/ C29_ZeroMagnitude(a)
              \/ C29_ZeroMagnitude(b)
              \/ C29_Orthogonal(a, b) ) => calc.output = Zero

\* ------------------------------------------------------------------ C30
\* An occurrence of '@type' or '@type:query' starts at position i (1-based)
\* of the text and its type, case ignored, is a known context type.
C30_KnownOccurrenceAt(text, i) ==
    /\ MatchesAt(text, i)
    /\ ToLowerCase(MatchAt(text, i).word) \in ContextTypes

\* C30: parseMentions returns, in text order, one mention for each '@type'
\* or '@type:query' occurrence whose type, case ignored, is a known context
\* type; the query is the run of non-whitespace characters after ':' (empty
\* when there is none), [startOffset, endOffset) spans exactly the matched
\* text, and an occurrence of another type yields no mention.  An '@type'
\* that lies inside the query of an earlier occurrence is part of that query.
C30_MentionsOfKnownTypes ==
    (calc.fn = "parseMentions" /\ calc.done) =>
        LET text == calc.input
            ms == calc.output
        IN  /\ \A k \in 1..Len(ms) :
                  /\ C30_KnownOccurrenceAt(text, ms[k].startOffset + 1)
                  /\ ms[k].type = ToLowerCase(MatchAt(text, ms[k].startOffset + 1).word)
                  /\ ms[k].query = MatchAt(text, ms[k].startOffset + 1).query
                  /\ ms[k].endOffset
                        = ms[k].startOffset + MatchAt(text, ms[k].startOffset + 1).length
            /\ \A k \in 1..(Len(ms) - 1) : ms[k].endOffset <= ms[k + 1].startOffset
            /\ \A i \in 1..Len(text) :
                  ( /\ C30_KnownOccurrenceAt(text, i)
                    /\ \A j \in 1..(i - 1) :
                          MatchesAt(text, j) => j + MatchAt(text, j).length <= i )
                      => \E k \in 1..Len(ms) : ms[k].startOffset = i - 1

\* ------------------------------------------------------------------ C28
\* The entries of the index that have an embedding, with the score of each
\* against the query embedding.
C28_Scored == ScoreEntries(index, calc.queryEmbedding, FALSE)

\* C28: with an embedding provider registered and embed succeeding,
\* semanticSearch embeds the query exactly once and returns at most limit
\* results in non-increasing score order, the highest-scoring among all
\* index entries that have an embedding: each result is such an entry with
\* its score, there are as many as the limit allows, and no entry left out
\* scores higher than one returned.
C28_TopByScore ==
    (calc.fn = "semanticSearch" /\ calc.done /\ calc.path = "semantic") =>
        LET out == calc.output
            all == C28_Scored
            returned == { out[k] : k \in 1..Len(out) }
            scored == { all[k] : k \in 1..Len(all) }
        IN  /\ calc.embeds = 1
            /\ Len(out) <= calc.input.limit
            /\ \A k \in 1..(Len(out) - 1) : FGeq(out[k].score, out[k + 1].score)
            /\ returned \subseteq scored
            /\ Cardinality(returned) = Len(out)
            /\ Len(out) = IF calc.input.limit < Len(all) THEN calc.input.limit ELSE Len(all)
            /\ \A r \in returned, s \in scored \ returned : FGeq(r.score, s.score)

\* ------------------------------------------------------------------ C31
\* A listener of either event is told.
Notified(f) == f.agents \/ f.active

\* The step ends a turn that changed its agent: the user message, the
\* attachments, the assistant message or a tool message was added.
TurnEndsHavingMutated ==
    /\ pc # "ended"
    /\ pc' = "ended"
    /\ agents'[cur'.agent] # hist'.preAgents[cur'.agent]

\* C31: every operation that mutates agent state (createAgent, deleteAgent,
\* updateAgent, setActiveAgent, a sendMessage or sendMessageStream turn) has
\* fired a change notification once its mutation is applied, and
\* setActiveAgent sets lastActiveAt of the agent it activates.
C31_MutationNotifies ==
    [][ /\ (\E up \in BOOLEAN : CreateAgent(up)) => Notified(fired')
        /\ (\E id \in AgentIds : DeleteAgent(id)) => Notified(fired')
        /\ (\E id \in AgentIds, u \in AgentUpdates : UpdateAgent(id, u)) => Notified(fired')
        /\ \A id \in AgentIds :
              SetActiveAgent(id) => Notified(fired') /\ fired'.stamped = id
        /\ TurnEndsHavingMutated => Notified(fired') ]_vars

\* ------------------------------------------------------------------ C32
\* The assistant message of the streaming turn that has ended: it follows
\* the user message of the turn.
StreamedAssistant ==
    agents[cur.agent].messages[Len(hist.preAgents[cur.agent].messages) + 2]

\* A streaming turn has ended normally: its assistant message is appended.
StreamTurnEnded == pc = "ended" /\ cur.kind = "stream" /\ hist.outcome = "ok"

\* For a tool_call delta yielded before a text delta, the list holds the
\* tool_call item before a text item.
KeepsEmissionOrder(content, yielded) ==
    \A i, j \in 1..Len(yielded) :
        (/\ i < j
         /\ Truthy(yielded[i].delta.toolName)
         /\ yielded[j].delta.text # <<>>)
        => \E a, b \in 1..Len(content) :
              /\ a < b
              /\ content[a].type = "tool_call"
              /\ content[a].toolCallId = yielded[i].delta.toolCallId
              /\ content[b].type = "text"

\* C32: the content list of the assistant message a streaming turn builds
\* keeps the items in delta emission order: text that arrives after a
\* tool_call delta stands after that tool_call, not in a text item before it.
C32_ContentInEmissionOrder ==
    StreamTurnEnded => KeepsEmissionOrder(StreamedAssistant.content, hist.yielded)

\* ------------------------------------------------------------------ C39
\* C39: whenever a sendMessage or sendMessageStream call has ended, with
\* success or with an error, what the storage service holds is the agents
\* of the map and the active id as they are in memory.
C39_SavedEqualsMemory ==
    pc = "ended" => store = SavedAgents(agentKeys, agents, activeAgentId)

\* ------------------------------------------------------------------ C38
\* C38: once the deferred registration of the built-in tools has run, all
\* six built-in tools are registered, whatever registerTool calls and turns
\* came before, between and after.
C38_BuiltInsRegistered ==
    builtInTimer = "done" =>
        \A k \in 1..Len(BuiltInTools) : InSeq(BuiltInTools[k], tools)

\* ------------------------------------------------------------------ C37
\* Line k of the response made the adapter yield a chunk that carries a
\* finish reason.
FinishYieldedAt(k) ==
    \E m \in 1..Len(adapter.emitted) :
        adapter.at[m] = k /\ adapter.emitted[m].finishReason # None

\* C37: in OpenAI's stream, whenever the provider sends a chunk with a
\* non-null finish reason, the adapter yields at least one chunk that
\* carries a finish reason, also for tool_calls when no buffered tool call
\* parses or none was buffered.
C37_FinishReasonYielded ==
    adapter.provider = "openai" =>
        \A k \in 1..Len(adapter.fed) :
            (adapter.fed[k].type = "chunk" /\ adapter.fed[k].finish # None)
                => FinishYieldedAt(k)

\* ------------------------------------------------------------------ C33
\* What the adapter has yielded when the bytes read so far came in one read.
YieldedInOneRead ==
    AfterRead(WireStart(adapter.provider, adapter.body),
              SubSeq(adapter.body, 1, adapter.pos)).emitted

\* C33: without cancellation, the chunks a streaming adapter yields for a
\* response are the same however the transport splits the bytes into reads:
\* a line split across reads is handled once, as a whole line.
C33_SplitsYieldTheSame == adapter.emitted = YieldedInOneRead

\* A response of one line, ended by its newline, came in several reads and
\* made the adapter yield.
C33_Witness ==
    /\ adapter.pc = "done"
    /\ adapter.reads >= 2
    /\ adapter.body[Len(adapter.body)] = NL
    /\ \A i \in 1..(Len(adapter.body) - 1) : adapter.body[i] # NL
    /\ adapter.emitted # <<>>

\* ------------------------------------------------------------------ C36
\* What the adapter yields for the body with its last line ended.
YieldedForAllLines ==
    AfterRead(WireStart(adapter.provider, adapter.body),
              Append(adapter.body, NL)).emitted

\* C36: a last line that no newline ends is still handled when the stream
\* ends: the chunk it encodes (Ollama's closing object with done set) is
\* yielded before the adapter's stream ends.
C36_LastLineHandled ==
    adapter.pc = "done" => adapter.emitted = YieldedForAllLines

\* ------------------------------------------------------------------ C35
\* getIndexStatus().
GetIndexStatus == [indexed |-> indexedCount, total |-> totalFiles, isIndexing |-> isIndexing]

\* C35: in every getIndexStatus snapshot, after any indexWorkspace passes
\* and watcher-driven indexFile calls, indexed is at most total.
C35_IndexedAtMostTotal == GetIndexStatus.indexed <= GetIndexStatus.total

\* ------------------------------------------------------------------ C34
\* No indexFile call for the locator is in flight.  In the step of C34 the
\* last call for a locator stores its entry; the call was overtaken by a
\* call that started later, read `overtaken` and has stored already.
Settled(u) == \A k \in 1..Len(inFlight) : inFlight[k].uri # u

\* C34: when two indexFile calls for the same locator overlap, the entry
\* left after both have completed holds the content read by the call that
\* started later, never the older content read by the earlier call.
C34_LaterCallWins ==
    [][ \A k \in 1..Len(inFlight) :
            (/\ inFlight[k].overtaken # 0
             /\ Len(seen'.built[inFlight[k].uri]) > Len(seen.built[inFlight[k].uri])
             /\ Settled(inFlight[k].uri)')
            => EntriesOf(index', inFlight[k].uri)[1].content = inFlight[k].overtaken
      ]_vars

\* ------------------------------------------------------------------ C40
\* Pass p is running: it is suspended in fileSearch or in an indexFile call.
PassRuns(p) == passes[p].pc # "off"

\* C40: every indexWorkspace pass that starts eventually sets isIndexing
\* back to false, whether it ends by completion, by cancellation or by an
\* exception from the file enumeration, so that a later call can start a
\* new pass.
C40_PassClearsIsIndexing ==
    \A p \in 1..MaxPasses : PassRuns(p) ~> (~PassRuns(p) /\ ~isIndexing)

\* A first pass has run and ended, and a second call has started a new pass.
C40_Witness ==
    /\ ~PassRuns(1)
    /\ PassRuns(2)
    /\ seen.enumerated = 2
    /\ seen.refused = 0

\* ------------------------------------------------------------------ C19
\* C19: a turn whose token is already cancelled when the adapter is about
\* to issue its network call (the agent exists, a provider was found, the
\* API key check passed) ends as a normal early termination: the call does
\* not fail with an error.
C19_PreCancelledEndsNormally ==
    (/\ pc = "ended"
     /\ hist.preCancelled
     /\ hist.providerCalls = 1
     /\ hist.outcome # "config_error") =>
        hist.outcome = "ok"

\* ------------------------------------------------------------------ C20
\* The text of the text deltas of a chunk sequence, concatenated, and its
\* tool_call deltas.
RECURSIVE TextOf(_)
TextOf(chunks) ==
    IF chunks = <<>> THEN <<>>
    ELSE Head(chunks).delta.text \o TextOf(Tail(chunks))

RECURSIVE ToolCallDeltas(_)
ToolCallDeltas(chunks) ==
    IF chunks = <<>> THEN <<>>
    ELSE IF Head(chunks).delta.type = "tool_call"
         THEN <<Head(chunks).delta>> \o ToolCallDeltas(Tail(chunks))
         ELSE ToolCallDeltas(Tail(chunks))

\* The text the assistant message carries.
RECURSIVE TextIn(_)
TextIn(content) ==
    IF content = <<>> THEN <<>>
    ELSE (IF Head(content).type = "text" THEN Head(content).text ELSE <<>>)
            \o TextIn(Tail(content))

\* A streaming turn whose token was cancelled while a read of the response
\* body was awaited has ended by the cancellation (no read failed).
CancelledMidStream ==
    /\ Ended("ok")
    /\ cur.kind = "stream"
    /\ hist.cancelledAt = "read"

====
